---------------------------- MODULE Spec2Model ----------------------------
(***************************************************************************)
(* The container stack of the engine: HashMap (open addressing, linear     *)
(* probing, deletion by re-insertion of the rest of the run), Map (a       *)
(* HashMap from key to index into a dense vector) and Storage (a Map       *)
(* keyed by an id counter).                                                *)
(*                                                                         *)
(* Each container is one record-valued variable; every public method is a  *)
(* pure operator from the container (and the arguments) to the container   *)
(* after the call plus the error the call raised, and one action applies   *)
(* it.  The three containers are independent objects: SpecHashMap,         *)
(* SpecMap and SpecStorage each run the methods of one of them, the        *)
(* assignments from and the moves to another object included.              *)
(*                                                                         *)
(* Further down: the reference-counted handles (ISharedPointer in          *)
(* SpecHandles, the hand-written idiom of Window and Engine in             *)
(* SpecWindow), Optional (SpecOptional), a HashMap and a Map used side by  *)
(* side (SpecIndexing), the HashMap with a size_t of SizeBits bits         *)
(* (SpecOverflow), the Storage with an Id of IdBits bits (SpecIds) and     *)
(* the populate loop of the HashMap test (SpecGrowth).                     *)
(***************************************************************************)
EXTENDS Integers, Sequences, FiniteSets

VARIABLES hm, hlast, href, mp, mlast, mins, st, slast, sp, plast, opt, oref, olast

\* the variables of each object
hashMapVars == <<hm, hlast, href>>
mapVars == <<mp, mlast, mins>>
storageVars == <<st, slast>>
handleVars == <<sp, plast>>
optionalVars == <<opt, oref, olast>>

vars == <<hashMapVars, mapVars, storageVars, handleVars, optionalVars>>

(***************************************************************************)
(* Bounds of the inputs.                                                   *)
(***************************************************************************)
\* keys passed to the methods of a HashMap: NULL_KEY and the first NumKeys keys
\* of KeyPool
NumKeys == 3
\* values passed to the methods are 0..MaxValue
MaxValue == 1
\* keys passed to the methods of a Map: NULL_KEY and the first NumMapKeys keys
\* of KeyPool
NumMapKeys == 2
\* the vector of a Map is not grown beyond MaxLen elements
MaxLen == 3
\* no push is made on a Storage whose id counter has reached MaxPush
MaxPush == 3
\* no push is made on a Storage with an Id of IdBits bits whose vector holds
\* MaxIdLen elements
MaxIdLen == 2
\* the container of handle copies holds at most MaxCopies handles
MaxCopies == 256
\* no explicit destructor call is made once MaxKept explicit destructor
\* calls have left the pointer in the handle
MaxKept == 3
\* the size_t of the HashMap of SpecOverflow has SizeBits bits
SizeBits == 3
\* the Id of the Storage of SpecIds has IdBits bits
IdBits == 2

\* 2, 18 and 10 hash to the same slot for every capacity up to 8 (2 and 18
\* up to 16), 1 and 5 to the same slot for the capacities 2 and 4: the keys
\* are chosen for their collisions.
KeyPool == <<2, 18, 10, 1, 5, 3, 7, 4>>
Keys == {0} \cup {KeyPool[i] : i \in 1..NumKeys}
Values == 0..MaxValue
MapKeys == {0} \cup {KeyPool[i] : i \in 1..NumMapKeys}
\* the HashMap test stores the keys 1..TEST_VALUES_COUNT
TEST_VALUES_COUNT == 21
TestKeys == 1..TEST_VALUES_COUNT
\* ids passed to the methods of a Storage: NULL_ID, every id it can have
\* returned, and one it cannot
Ids == 0..(MaxPush + 1)

(***************************************************************************)
(* Program constants.                                                      *)
(***************************************************************************)
NULL_KEY == 0
DEFAULT_CAPACITY == 2
\* The hash is a uint64_t that is only ever used as hash & (capacity - 1).
\* Bit i of h ^ b and of h * p depends on bits 0..i of the operands only, so
\* the low 16 bits of the hash are computed exactly by the same rounds on
\* the low 16 bits of the offset basis and of the prime:
\*   14695981039346656037 = 0xcbf29ce484222325, low 16 bits 0x2325
\*   1099511628211        = 0x00000100000001b3, low 16 bits 0x01b3
\* This is exact for every capacity up to 2^16.
FNV_OFFSET_LOW == 8997
FNV_PRIME_LOW == 435
HashMod == 2 ^ 16
\* Optional<T>: NONE, the Optional without a value (values are >= 0)
NONE == -1

(***************************************************************************)
(* Bit operations on naturals.                                             *)
(***************************************************************************)
RECURSIVE BitXor(_, _)
BitXor(a, b) ==
    IF a = 0 THEN b
    ELSE IF b = 0 THEN a
    ELSE (((a % 2) + (b % 2)) % 2) + 2 * BitXor(a \div 2, b \div 2)

RECURSIVE BitAnd(_, _)
BitAnd(a, b) ==
    IF a = 0 \/ b = 0 THEN 0
    ELSE ((a % 2) * (b % 2)) + 2 * BitAnd(a \div 2, b \div 2)

\* uint64_t hash(uint64_t key): FNV-1a over the 8 bytes of the key.  rest is
\* key >> (8 * i), so that rest % 256 is ((uint8_t *) &key)[i] on a
\* little-endian target.
RECURSIVE hash_rounds(_, _, _)
hash_rounds(h, rest, i) ==
    IF i >= 8 THEN h
    ELSE hash_rounds((BitXor(h, rest % 256) * FNV_PRIME_LOW) % HashMod, rest \div 256, i + 1)

hash(key) == hash_rounds(FNV_OFFSET_LOW, key, 0)

\* hash(key) of every key the model passes, computed once
HashedKeys == Keys \cup MapKeys \cup Ids \cup TestKeys
hashes == [key \in HashedKeys |-> hash(key)]

\* hash(key) & (capacity - 1)
slot_of(key, capacity) ==
    BitAnd(IF key \in HashedKeys THEN hashes[key] ELSE hash(key), capacity - 1)

(***************************************************************************)
(* HashMap                                                                 *)
(***************************************************************************)
EmptyEntry == [key |-> NULL_KEY, value |-> 0]

ZeroEntries(capacity) == [i \in 0..(capacity - 1) |-> EmptyEntry]

\* HashMap::HashMap()
NewHashMap ==
    [entries |-> ZeroEntries(DEFAULT_CAPACITY), capacity |-> DEFAULT_CAPACITY, count |-> 0]

\* index++; if (index >= capacity) index = 0;
next_index(index, capacity) == IF index + 1 >= capacity THEN 0 ELSE index + 1

\* The probe loop of set_entry and of HashMap::get: from index, the first slot
\* that is empty or holds the key.  steps counts the iterations; a loop that
\* has visited every slot without finding either never ends (diverges).
RECURSIVE probe(_, _, _, _, _)
probe(entries, capacity, key, index, steps) ==
    IF steps >= capacity
    THEN [index |-> index, hit |-> FALSE, diverges |-> TRUE]
    ELSE IF entries[index].key = NULL_KEY
    THEN [index |-> index, hit |-> FALSE, diverges |-> FALSE]
    ELSE IF entries[index].key = key
    THEN [index |-> index, hit |-> TRUE, diverges |-> FALSE]
    ELSE probe(entries, capacity, key, next_index(index, capacity), steps + 1)

\* set_entry without the NULL_KEY check
set_entry_unchecked(entries, capacity, key, value) ==
    LET p == probe(entries, capacity, key, slot_of(key, capacity), 0) IN
    [entries  |-> [entries EXCEPT ![p.index] = [key |-> key, value |-> value]],
     inserted |-> ~p.hit,
     err      |-> "none"]

\* set_entry(entries, capacity, key, value, count): the entries after the call,
\* whether a new slot was taken (the caller's count is incremented when it
\* passed one), and the exception thrown.
set_entry(entries, capacity, key, value) ==
    IF key = NULL_KEY
    THEN [entries |-> entries, inserted |-> FALSE, err |-> "invalid_argument"]
    ELSE LET p == probe(entries, capacity, key, slot_of(key, capacity), 0) IN
         IF p.diverges
         THEN [entries |-> entries, inserted |-> FALSE, err |-> "diverges"]
         ELSE [entries  |-> [entries EXCEPT ![p.index] = [key |-> key, value |-> value]],
               inserted |-> ~p.hit,
               err      |-> "none"]

\* the loop of HashMap::expand, inserting with the capacity of the old array
RECURSIVE expand_move_old_capacity(_, _, _, _)
expand_move_old_capacity(old_entries, old_capacity, new_entries, i) ==
    IF i >= old_capacity THEN new_entries
    ELSE IF old_entries[i].key # NULL_KEY
    THEN expand_move_old_capacity(old_entries, old_capacity,
                                  set_entry(new_entries, old_capacity,
                                            old_entries[i].key, old_entries[i].value).entries,
                                  i + 1)
    ELSE expand_move_old_capacity(old_entries, old_capacity, new_entries, i + 1)

RECURSIVE expand_move(_, _, _, _)

\* the loop of HashMap::expand once the set_entry call for the old slot i
\* has returned r (set_entry always finds a slot in the new array, which is
\* never full)
expand_moved(old_entries, old_capacity, r, i) ==
    IF r.err # "none" THEN r.entries
    ELSE expand_move(old_entries, old_capacity, r.entries, i + 1)

\* the loop of HashMap::expand over the old slots 0..capacity-1
expand_move(old_entries, old_capacity, new_entries, i) ==
    IF i >= old_capacity THEN new_entries
    ELSE IF old_entries[i].key # NULL_KEY
    THEN expand_moved(old_entries, old_capacity,
                      set_entry(new_entries, old_capacity * 2,
                                old_entries[i].key, old_entries[i].value),
                      i)
    ELSE expand_move(old_entries, old_capacity, new_entries, i + 1)

\* expand with the bug of copying the old array into the front of the new
\* one (a memcpy) instead of re-inserting each entry
expand_by_copy(h) ==
    [entries  |-> [i \in 0..(h.capacity * 2 - 1) |->
                      IF i < h.capacity THEN h.entries[i] ELSE EmptyEntry],
     capacity |-> h.capacity * 2,
     count    |-> h.count]

\* expand with a new capacity of four times the old one
expand_quadruple(h) ==
    [entries  |-> expand_move(h.entries, h.capacity, ZeroEntries(h.capacity * 4), 0),
     capacity |-> h.capacity * 4,
     count    |-> h.count]

\* HashMap::expand (the size_t overflow of capacity * 2 is out of reach of
\* the capacities of this model)
expand(h) ==
    [entries  |-> expand_move(h.entries, h.capacity, ZeroEntries(h.capacity * 2), 0),
     capacity |-> h.capacity * 2,
     count    |-> h.count]

\* HashMap::get: the value of the key, or NONE
get(h, key) ==
    IF key = NULL_KEY THEN NONE
    ELSE LET p == probe(h.entries, h.capacity, key, slot_of(key, h.capacity), 0) IN
         IF p.hit THEN h.entries[p.index].value ELSE NONE

\* HashMap::exists
exists(h, key) == get(h, key) # NONE

\* HashMap::count
count(h) == h.count

\* set that grows when no empty slot is left only
set_expand_when_full(h, key, value) ==
    LET g == IF h.count >= h.capacity THEN expand(h) ELSE h
        r == set_entry(g.entries, g.capacity, key, value)
    IN [h   |-> [entries  |-> r.entries,
                 capacity |-> g.capacity,
                 count    |-> IF r.inserted THEN g.count + 1 ELSE g.count],
        err |-> r.err]

\* set that grows when one empty slot is left only
set_expand_nearly_full(h, key, value) ==
    LET g == IF h.count >= h.capacity - 1 THEN expand(h) ELSE h
        r == set_entry(g.entries, g.capacity, key, value)
    IN [h   |-> [entries  |-> r.entries,
                 capacity |-> g.capacity,
                 count    |-> IF r.inserted THEN g.count + 1 ELSE g.count],
        err |-> r.err]

\* set that grows when the table is more than half full only
set_expand_late(h, key, value) ==
    LET g == IF h.count > h.capacity \div 2 THEN expand(h) ELSE h
        r == set_entry(g.entries, g.capacity, key, value)
    IN [h   |-> [entries  |-> r.entries,
                 capacity |-> g.capacity,
                 count    |-> IF r.inserted THEN g.count + 1 ELSE g.count],
        err |-> r.err]

\* HashMap::set: [h: the map after the call, err: the exception thrown]
set(h, key, value) ==
    LET g == IF h.count >= h.capacity \div 2 THEN expand(h) ELSE h
        r == set_entry(g.entries, g.capacity, key, value)
    IN [h   |-> [entries  |-> r.entries,
                 capacity |-> g.capacity,
                 count    |-> IF r.inserted THEN g.count + 1 ELSE g.count],
        err |-> r.err]

\* HashMap::operator[]: [h, err, value: the value of the returned slot]
index_op(h, key) ==
    IF get(h, key) # NONE
    THEN [h |-> h, err |-> "none", value |-> get(h, key)]
    ELSE LET r == set(h, key, 0) IN
         [h |-> r.h, err |-> r.err, value |-> IF r.err = "none" THEN get(r.h, key) ELSE NONE]

\* the store of value through the reference that operator[] returned: r is
\* the result of index_op(h, key), the reference is the slot of the key
store_through(r, key, value) ==
    IF r.err # "none" THEN r
    ELSE LET p == probe(r.h.entries, r.h.capacity, key, slot_of(key, r.h.capacity), 0) IN
         [h     |-> [r.h EXCEPT !.entries[p.index].value = value],
          err   |-> "none",
          value |-> value]

\* map[key] = value: operator[] and a store through the returned reference
index_assign(h, key, value) == store_through(index_op(h, key), key, value)

\* size_t new_capacity = m_data->capacity * 2, in a size_t of w bits
new_capacity(h, w) == (h.capacity * 2) % (2 ^ w)

\* expand that leaves the capacity when the doubling overflows, and does
\* not throw
expand_w_silent(h, w) ==
    [h |-> IF new_capacity(h, w) < h.capacity THEN h ELSE expand(h), err |-> "none"]

\* HashMap::expand with a size_t of w bits: [h, err]
expand_w(h, w) ==
    IF new_capacity(h, w) < h.capacity
    THEN [h |-> h, err |-> "overflow_error"]
    ELSE [h |-> expand(h), err |-> "none"]

\* the call of set_entry at the end of HashMap::set, on the table g
set_stored(g, r) ==
    [h   |-> [entries  |-> r.entries,
              capacity |-> g.capacity,
              count    |-> IF r.inserted THEN g.count + 1 ELSE g.count],
     err |-> r.err]

\* HashMap::set once expand was called or skipped: e is the result of expand
set_expanded(e, key, value) ==
    IF e.err # "none" THEN e
    ELSE set_stored(e.h, set_entry(e.h.entries, e.h.capacity, key, value))

\* HashMap::set with a size_t of w bits: [h, err]
set_w(h, key, value, w) ==
    set_expanded(IF h.count >= h.capacity \div 2 THEN expand_w(h, w)
                 ELSE [h |-> h, err |-> "none"],
                 key, value)

\* HashMap::operator[] once set was called: r is the result of set
index_op_stored(r, key) ==
    [h |-> r.h, err |-> r.err, value |-> IF r.err = "none" THEN get(r.h, key) ELSE NONE]

\* HashMap::operator[] with a size_t of w bits: [h, err, value]
index_op_w(h, key, w) ==
    IF get(h, key) # NONE
    THEN [h |-> h, err |-> "none", value |-> get(h, key)]
    ELSE index_op_stored(set_w(h, key, 0, w), key)

\* map[key] = value with a size_t of w bits
index_assign_w(h, key, value, w) == store_through(index_op_w(h, key, w), key, value)

\* The scan loop of HashMap::remove: walks from index to the next empty slot,
\* remembers the slot of the key (deleted_index, -1 for nullptr) and counts
\* the slots from it to the end of the run (invalidated_block_size).
RECURSIVE remove_scan(_, _, _, _, _, _, _)
remove_scan(entries, capacity, key, index, deleted_index, block_size, steps) ==
    IF steps >= capacity
    THEN [deleted_index |-> deleted_index, block_size |-> block_size, diverges |-> TRUE]
    ELSE IF entries[index].key = NULL_KEY
    THEN [deleted_index |-> deleted_index, block_size |-> block_size, diverges |-> FALSE]
    ELSE LET d == IF key = entries[index].key THEN index ELSE deleted_index IN
         remove_scan(entries, capacity, key, next_index(index, capacity), d,
                     IF d # -1 THEN block_size + 1 ELSE block_size, steps + 1)

\* the copy loop started one slot too far (j = deleted_index + 2)
invalidated_slot_skip_first(deleted_index, i, capacity) == (deleted_index + 2 + i) % capacity

\* the slot the i-th invalidated entry is copied from
invalidated_slot(deleted_index, i, capacity) == (deleted_index + 1 + i) % capacity

\* the second loop of HashMap::remove: set_entry of invalidated_slots[i..]
RECURSIVE reinsert(_, _, _, _)
reinsert(entries, capacity, invalidated_slots, i) ==
    IF i >= Len(invalidated_slots) THEN entries
    ELSE reinsert(set_entry(entries, capacity,
                            invalidated_slots[i + 1].key, invalidated_slots[i + 1].value).entries,
                  capacity, invalidated_slots, i + 1)

\* remove that only empties the slot of the key (no repair of the run)
remove_found_no_repair(h, s) ==
    [entries  |-> [h.entries EXCEPT ![s.deleted_index] = EmptyEntry],
     capacity |-> h.capacity,
     count    |-> h.count - 1]

\* remove that hands &m_data->count to the set_entry calls of the re-insertion
remove_found_recount(h, s) ==
    LET r == remove_found_no_repair(h, s) IN
    [entries  |-> r.entries,
     capacity |-> h.capacity,
     count    |-> h.count - 1 + (s.block_size - 1)]

\* HashMap::remove, given the result s of its scan loop
remove_found(h, s) ==
    LET n == s.block_size - 1
        invalidated_slots ==
            [i \in 1..n |-> h.entries[invalidated_slot(s.deleted_index, i - 1, h.capacity)]]
        nulled == {s.deleted_index} \cup
                  {invalidated_slot(s.deleted_index, i, h.capacity) : i \in 0..(n - 1)}
        cleared == [j \in 0..(h.capacity - 1) |->
                       IF j \in nulled THEN EmptyEntry ELSE h.entries[j]]
    IN [entries  |-> reinsert(cleared, h.capacity, invalidated_slots, 0),
        capacity |-> h.capacity,
        count    |-> h.count - 1]

remove_scan_of(h, key) ==
    remove_scan(h.entries, h.capacity, key, slot_of(key, h.capacity), -1, 0, 0)

\* HashMap::remove
remove(h, key) ==
    LET s == remove_scan_of(h, key) IN
    IF s.deleted_index # -1 /\ ~s.diverges THEN remove_found(h, s) ELSE h

\* clear that resets the count and leaves the slots
clear_count_only(h) == [h EXCEPT !.count = 0]

\* HashMap::clear
clear(h) ==
    IF h.count > 0
    THEN [entries |-> ZeroEntries(h.capacity), capacity |-> h.capacity, count |-> 0]
    ELSE h

\* m_data == nullptr: the HashMap after it was moved from or destroyed.  It
\* holds no table (written as a table of capacity 0, which no Data has).
NullData == [entries |-> ZeroEntries(0), capacity |-> 0, count |-> 0]

\* m_data is the address of a Data that was deleted: what hm.~HashMap()
\* leaves in a build that drops the store m_data = nullptr, the last write
\* to an object whose lifetime has ended.  The fields of the deleted Data
\* are indeterminate (written as a count no Data has).
FreedData == [entries |-> ZeroEntries(0), capacity |-> 0, count |-> NONE]

\* m_data points to a Data: it is neither nullptr nor the address of a
\* deleted Data
has_data(h) == h # NullData /\ h # FreedData

\* HashMap::~HashMap as it runs inside the assignments: deletes the Data if
\* there is one, m_data = nullptr
destroy(h) == NullData

\* what hm.~HashMap(), called on an object that stays in use, leaves in
\* m_data: nullptr, or, when there was a Data, its address still (the store
\* of nullptr is dropped by the optimizing builds)
destroyed(h) == IF has_data(h) THEN {NullData, FreedData} ELSE {NullData}

\* HashMap::HashMap(HashMap &&other), seen from other: other.m_data = nullptr
moved_from(h) == NullData

\* HashMap::operator=(const HashMap &other), this != &other: the destructor,
\* then a new Data with the capacity, the count and a memcpy of the entries
\* of other.  other.m_data is dereferenced unchecked: [h, undefined].
copy_assign(h, other) ==
    IF has_data(other)
    THEN [h |-> [entries  |-> other.entries,
                 capacity |-> other.capacity,
                 count    |-> other.count],
          undefined |-> FALSE]
    ELSE [h |-> destroy(h), undefined |-> TRUE]

\* HashMap::operator=(HashMap &&other), this != &other: the destructor, then
\* m_data = other.m_data (nullptr when other was moved from)
move_assign(h, other) == other

\* a HashMap on which set(KeyPool[i], value) was called for i = 1..n, the
\* operand of an assignment: [h: the map, stored: the value stored per key]
RECURSIVE populated(_, _)
populated(n, value) ==
    IF n = 0 THEN [h |-> NewHashMap, stored |-> [k \in Keys |-> NONE]]
    ELSE LET o == populated(n - 1, value) IN
         [h      |-> set(o.h, KeyPool[n], value).h,
          stored |-> [o.stored EXCEPT ![KeyPool[n]] = value]]

\* the operands of the assignments: a moved-from HashMap, a new one, and
\* the HashMaps that hold the first n keys
OtherHashMaps ==
    {[h |-> NullData, stored |-> [k \in Keys |-> NONE]]}
        \cup {populated(n, v) : n \in 0..NumKeys, v \in Values}

\* The skip loops of HashMap::Iterator: from index, the first slot that is
\* not empty, or capacity (m_entry = nullptr) when there is none.
RECURSIVE iterator_skip(_, _)
iterator_skip(h, index) ==
    IF index >= h.capacity THEN h.capacity
    ELSE IF h.entries[index].key = NULL_KEY THEN iterator_skip(h, index + 1)
    ELSE index

\* HashMap::Iterator::Iterator(map, index): the m_index of the new iterator
iterator_new(h, index) ==
    IF index < h.capacity THEN iterator_skip(h, index) ELSE index

\* operator++ that takes the first empty slot for the end of the table
iterator_next_stop_at_empty(h, index) ==
    IF index >= h.capacity THEN index
    ELSE IF index + 1 >= h.capacity THEN h.capacity
    ELSE IF h.entries[index + 1].key = NULL_KEY THEN h.capacity
    ELSE index + 1

\* HashMap::Iterator::operator++: the m_index after the call (an iterator
\* at the end has m_entry = nullptr and stays where it is)
iterator_next(h, index) ==
    IF index >= h.capacity THEN index ELSE iterator_skip(h, index + 1)

\* HashMap::begin and HashMap::end
begin(h) == iterator_new(h, 0)
end(h) == iterator_new(h, h.capacity)

\* for (it = begin(); it != end(); ++it): the m_index of the iterator at
\* each round of the loop
RECURSIVE iterate_from(_, _)
iterate_from(h, index) ==
    IF index # end(h)
    THEN <<index>> \o iterate_from(h, iterator_next(h, index))
    ELSE <<>>

iterate_slots(h) == iterate_from(h, begin(h))

\* the entries *it of that loop
iterate(h) ==
    LET slots == iterate_slots(h) IN
    [i \in 1..Len(slots) |-> h.entries[slots[i]]]

(***************************************************************************)
(* Map<T>: m_hash_map maps a key to the index of its Entry in m_storage.   *)
(* m_storage is a std::vector, indexed from 0: the element at index i is   *)
(* storage[i + 1].  The values of T are 0..MaxValue and T() is 0.          *)
(***************************************************************************)
DefaultT == 0

NewMap == [hash_map |-> NewHashMap, storage |-> <<>>]

\* what m_storage[index] reads when index >= m_storage.size(): the access is
\* outside the elements of the vector
OutOfRange == [key |-> NONE, value |-> NONE]

\* m_storage[index]
at(storage, index) ==
    IF index < Len(storage) THEN storage[index + 1] ELSE OutOfRange

\* Map::get: the value of the key, or NONE for nullptr
map_get(m, key) ==
    LET res == get(m.hash_map, key) IN
    IF res # NONE THEN at(m.storage, res).value ELSE NONE

\* Map::count
map_count(m) == count(m.hash_map)

\* Map::exists
map_exists(m, key) == exists(m.hash_map, key)

\* the else branch of Map::set and of Map::operator[]: push_back, then
\* m_hash_map.set(key, index), which may throw after the push_back
map_append(m, key, value) ==
    LET index == Len(m.storage)
        r == set(m.hash_map, key, index)
    IN [m   |-> [hash_map |-> r.h, storage |-> Append(m.storage, [key |-> key, value |-> value])],
        err |-> r.err]

\* Map::set without the lookup: every call appends
map_set_always_append(m, key, value) == map_append(m, key, value)

\* Map::set: [m: the map after the call, err: the exception thrown]
map_set(m, key, value) ==
    LET res == get(m.hash_map, key) IN
    IF res # NONE
    THEN [m   |-> [m EXCEPT !.storage[res + 1].value = value],
          err |-> "none"]
    ELSE map_append(m, key, value)

\* Map::operator[]: [m, err, value: the value of the returned slot].
\* Entry {key} default-initialises m_value: u is the value it holds, T() for
\* a class T that initialises its members, any value for a scalar T, whose
\* m_value is left uninitialised.
map_index(m, key, u) ==
    LET res == get(m.hash_map, key) IN
    IF res # NONE
    THEN [m |-> m, err |-> "none", value |-> at(m.storage, res).value]
    ELSE LET r == map_append(m, key, u) IN
         [m |-> r.m, err |-> r.err, value |-> IF r.err = "none" THEN u ELSE NONE]

\* the store of value through the reference that Map::operator[] returned:
\* r is the result of map_index(m, key, u), the reference is the entry of
\* the key
map_store_through(r, key, value) ==
    IF r.err # "none" THEN r
    ELSE [m     |-> [r.m EXCEPT !.storage[get(r.m.hash_map, key) + 1].value = value],
          err   |-> "none",
          value |-> value]

\* map[key] = value: operator[] and a store through the returned reference
map_index_assign(m, key, value, u) ==
    map_store_through(map_index(m, key, u), key, value)

\* Map::remove: [m, err]; the m_hash_map.set of the moved element may throw
map_remove(m, key) ==
    LET res == get(m.hash_map, key) IN
    IF res = NONE THEN [m |-> m, err |-> "none"]
    ELSE LET index   == res
             moved   == [m.storage EXCEPT ![index + 1] = m.storage[Len(m.storage)]]
             storage == SubSeq(moved, 1, Len(moved) - 1)
             removed == remove(m.hash_map, key)
         IN IF index < Len(storage)
            THEN LET r == set(removed, at(storage, index).key, index) IN
                 [m |-> [hash_map |-> r.h, storage |-> storage], err |-> r.err]
            ELSE [m |-> [hash_map |-> removed, storage |-> storage], err |-> "none"]

\* Map::clear
map_clear(m) == [hash_map |-> clear(m.hash_map), storage |-> <<>>]

\* Map::begin .. Map::end: the keys the iteration yields, in order
map_iterate(m) == [i \in 1..Len(m.storage) |-> m.storage[i].key]

\* the Map holds a table: its m_hash_map has a Data
map_has_data(m) == has_data(m.hash_map)

\* the index that m_hash_map holds for the key, if it holds one, is an
\* index of m_storage
map_in_range(m, key) == get(m.hash_map, key) < Len(m.storage)

\* Map::remove of a key whose index is not an index of m_storage, when it
\* returns: the move assignment to m_storage[index] writes outside the
\* elements, then pop_back and m_hash_map.remove(key) as for any key
map_remove_out_of_range(m, key) ==
    [hash_map |-> remove(m.hash_map, key),
     storage  |-> SubSeq(m.storage, 1, Len(m.storage) - 1)]

\* Map::Map(Map &&other), seen from other: its m_hash_map and its m_storage
\* were moved from (a moved-from std::vector is empty)
map_moved_from(m) == [hash_map |-> moved_from(m.hash_map), storage |-> <<>>]

\* Map::operator=(const Map &other): m_hash_map = other.m_hash_map, which
\* dereferences other.m_hash_map.m_data unchecked, then m_storage =
\* other.m_storage: [m, undefined]
map_copy_assign(m, other) ==
    LET r == copy_assign(m.hash_map, other.hash_map) IN
    [m |-> [hash_map |-> r.h,
            storage  |-> IF r.undefined THEN m.storage ELSE other.storage],
     undefined |-> r.undefined]

\* Map::operator=(Map &&other)
map_move_assign(m, other) ==
    [hash_map |-> move_assign(m.hash_map, other.hash_map), storage |-> other.storage]

\* m = std::move(m): Map::operator=(Map &&) has no test of this == &other.
\* The HashMap has one and stays as it is; the vector is move-assigned
\* itself, which leaves it empty
map_move_assign_self(m) == [hash_map |-> m.hash_map, storage |-> <<>>]

\* a Map on which set(KeyPool[i], value) was called for i = 1..n, the
\* operand of an assignment
RECURSIVE map_populated(_, _)
map_populated(n, value) ==
    IF n = 0 THEN NewMap ELSE map_set(map_populated(n - 1, value), KeyPool[n], value).m

\* the operands of the assignments: a moved-from Map, a new one, and the
\* Maps that hold the first n keys.  The operand is another object than the
\* Map assigned to, except in m = m, which does nothing.
OtherMaps ==
    {map_moved_from(NewMap)} \cup {map_populated(n, v) : n \in 0..NumMapKeys, v \in Values}

(***************************************************************************)
(* Storage<T>                                                              *)
(***************************************************************************)
NULL_ID == 0

NewStorage == [id_counter |-> 0, map |-> NewMap]

\* push that takes the next id from the number of stored elements
storage_push_by_count(s, value) ==
    LET id == map_count(s.map) + 1
        r  == map_set(s.map, id, value)
    IN [s   |-> [id_counter |-> id, map |-> r.m],
        err |-> r.err,
        id  |-> IF r.err = "none" THEN id ELSE NONE]

\* Storage::push: [s, err, id: the id returned]
storage_push(s, value) ==
    LET id == s.id_counter + 1
        r  == map_set(s.map, id, value)
    IN [s   |-> [id_counter |-> id, map |-> r.m],
        err |-> r.err,
        id  |-> IF r.err = "none" THEN id ELSE NONE]

\* m_id_counter++ on an Id of w bits
next_id(s, w) == (s.id_counter + 1) % (2 ^ w)

\* push that catches the exception of m_map.set and returns the id
storage_push_w_caught(s, value, w) ==
    [s   |-> [id_counter |-> next_id(s, w), map |-> map_set(s.map, next_id(s, w), value).m],
     err |-> "none",
     id  |-> next_id(s, w)]

\* Storage::push once m_map.set was called: r is the result of the set
storage_pushed(id, r) ==
    [s   |-> [id_counter |-> id, map |-> r.m],
     err |-> r.err,
     id  |-> IF r.err = "none" THEN id ELSE NONE]

\* Storage::push with an Id of w bits: [s, err, id: the id returned]
storage_push_w(s, value, w) ==
    storage_pushed(next_id(s, w), map_set(s.map, next_id(s, w), value))

\* Storage::get
storage_get(s, id) == map_get(s.map, id)

\* operator[] that forwards to Map::operator[] (get-or-insert)
storage_index_inserting(s, id) ==
    LET r == map_index(s.map, id, DefaultT) IN
    [s |-> [s EXCEPT !.map = r.m], err |-> r.err, value |-> r.value]

\* Storage::operator[]: [s, err, value]
storage_index(s, id) ==
    LET res == storage_get(s, id) IN
    IF res = NONE
    THEN [s |-> s, err |-> "runtime_error", value |-> NONE]
    ELSE [s |-> s, err |-> "none", value |-> res]

\* the store of value through the T * that Map::get returned for the key
map_store(m, key, value) ==
    [m EXCEPT !.storage[get(m.hash_map, key) + 1].value = value]

\* storage[id] = value: operator[], which throws for an absent id, and a
\* store through the returned T &
storage_index_assign(s, id, value) ==
    IF storage_get(s, id) = NONE
    THEN [s |-> s, err |-> "runtime_error", value |-> NONE]
    ELSE [s |-> [s EXCEPT !.map = map_store(s.map, id, value)], err |-> "none", value |-> value]

\* if (auto *p = storage.get(id)) *p = value
storage_get_store(s, id, value) ==
    IF storage_get(s, id) = NONE THEN s
    ELSE [s EXCEPT !.map = map_store(s.map, id, value)]

\* for (auto &v : storage) v.value() += d: a store through each *it
storage_iterate_add(s, d) ==
    [s EXCEPT !.map.storage =
        [i \in 1..Len(s.map.storage) |->
            [s.map.storage[i] EXCEPT !.value = @ + d]]]

\* Storage::remove
storage_remove(s, id) ==
    LET r == map_remove(s.map, id) IN
    [s |-> [s EXCEPT !.map = r.m], err |-> r.err]

\* Storage::clear
storage_clear(s) == [s EXCEPT !.map = map_clear(s.map)]

\* Storage::count
storage_count(s) == map_count(s.map)

\* Storage::exists
storage_exists(s, id) == map_exists(s.map, id)

\* Storage::begin .. Storage::end
storage_iterate(s) == map_iterate(s.map)

\* the Storage holds a table: the m_hash_map of its m_map has a Data
storage_has_data(s) == map_has_data(s.map)

\* the implicit Storage::operator=(const Storage &other): m_id_counter =
\* other.m_id_counter, then m_map = other.m_map: [s, undefined]
storage_copy_assign(s, other) ==
    LET r == map_copy_assign(s.map, other.map) IN
    [s |-> [id_counter |-> other.id_counter, map |-> r.m], undefined |-> r.undefined]

\* the implicit Storage::operator=(Storage &&other)
storage_move_assign(s, other) ==
    [id_counter |-> other.id_counter, map |-> map_move_assign(s.map, other.map)]

\* s = std::move(s): the counter is assigned itself, m_map is move-assigned
\* itself
storage_move_assign_self(s) == [s EXCEPT !.map = map_move_assign_self(s.map)]

\* the implicit Storage::Storage(Storage &&other), seen from other: the
\* counter is copied and stays, m_map was moved from
storage_moved_from(s) == [s EXCEPT !.map = map_moved_from(s.map)]

\* a Storage on which push(value) was called n times, the operand of an
\* assignment
RECURSIVE storage_populated(_, _)
storage_populated(n, value) ==
    IF n = 0 THEN NewStorage ELSE storage_push(storage_populated(n - 1, value), value).s

\* the operands of the assignments: a moved-from Storage, a new one, and
\* the Storages that hold the first n ids
OtherStorages ==
    {storage_moved_from(NewStorage)}
        \cup {storage_populated(n, v) : n \in 0..NumMapKeys, v \in Values}

(***************************************************************************)
(* ISharedPointer: a handle is a pointer to an ISharedPointerData payload  *)
(* that carries the reference count.                                       *)
(*   handles:  the pointer m_shared_pointer_data of each named handle      *)
(*             (NoObject: no handle object is constructed under that name);*)
(*   copies:   the number of handles in a container of copies, all of them *)
(*             copy-constructed from a handle of the payload CopiedPayload;*)
(*   payloads: for each payload, whether it is allocated, live or freed,   *)
(*             its reference_count field, the number of times it was       *)
(*             deleted, and the payload that new has placed at its address *)
(*             since it was freed ("none" when there is none);             *)
(*   kept:     the number of explicit destructor calls that left the       *)
(*             pointer in the handle;                                      *)
(*   undefined: whether a call has read or written the reference_count of  *)
(*             a freed payload, which is undefined behaviour.  The call    *)
(*             works on the memory at the address the handle holds: the    *)
(*             payload that new has placed there since, or else the        *)
(*             content the freed payload left.                             *)
(***************************************************************************)
\* uint8_t reference_count: the values of the field are 0..255
RefCountMod == 256

HandleNames == {"a", "b"}
Payloads == {"p", "q"}
CopiedPayload == "p"
NULLPTR == "nullptr"
NoObject == "no object"

NoPayload ==
    [state |-> "unallocated", reference_count |-> 0, frees |-> 0, reused_by |-> "none"]

NewHandles ==
    [handles  |-> [h \in HandleNames |-> NoObject],
     copies   |-> 0,
     payloads |-> [p \in Payloads |-> NoPayload],
     kept     |-> 0,
     undefined |-> FALSE]

\* ISharedPointer::is_valid
is_valid(s, h) == s.handles[h] # NULLPTR

\* new of a payload: ISharedPointerData with reference_count = 1
allocate(s, p) ==
    [s EXCEPT !.payloads[p] = [NoPayload EXCEPT !.state = "live", !.reference_count = 1]]

\* new of the payload p when the allocator returns the address of the
\* freed payload f
allocate_reusing(s, p, f) == [allocate(s, p) EXCEPT !.payloads[f].reused_by = p]

\* the payload a pointer to p reaches: p, or, when p was freed and new has
\* placed another payload at its address, that payload
RECURSIVE occupant(_, _)
occupant(s, p) ==
    IF s.payloads[p].state = "freed" /\ s.payloads[p].reused_by # "none"
    THEN occupant(s, s.payloads[p].reused_by)
    ELSE p

\* m_shared_pointer_data->reference_count++
acquire(s, p) ==
    [s EXCEPT !.payloads[occupant(s, p)].reference_count = (@ + 1) % RefCountMod,
              !.undefined = @ \/ s.payloads[p].state = "freed"]

\* the body of ~ISharedPointer for a pointer that is not null:
\* reference_count--, and delete when it is 0
release(s, p) ==
    LET o == occupant(s, p)
        c == (s.payloads[o].reference_count + RefCountMod - 1) % RefCountMod
        u == s.undefined \/ s.payloads[p].state = "freed"
    IN IF c = 0
       THEN [s EXCEPT !.payloads[o] =
                [@ EXCEPT !.state = "freed", !.reference_count = 0, !.frees = @ + 1],
                      !.undefined = u]
       ELSE [s EXCEPT !.payloads[o].reference_count = c, !.undefined = u]

\* explicit ISharedPointer(ISharedPointerData *data), with a new payload
sp_new(s, h, p) == [allocate(s, p) EXCEPT !.handles[h] = p]

\* the same when new returns the address of the freed payload f
sp_new_reusing(s, h, p, f) == [allocate_reusing(s, p, f) EXCEPT !.handles[h] = p]

\* ISharedPointer() = default
sp_default(s, h) == [s EXCEPT !.handles[h] = NULLPTR]

\* ISharedPointer(const ISharedPointer &other)
sp_copy_construct(s, dst, src) ==
    LET t == [s EXCEPT !.handles[dst] = s.handles[src]] IN
    IF t.handles[dst] # NULLPTR THEN acquire(t, t.handles[dst]) ELSE t

\* ISharedPointer(ISharedPointer &&other)
sp_move_construct(s, dst, src) ==
    [s EXCEPT !.handles[dst] = s.handles[src], !.handles[src] = NULLPTR]

\* ~ISharedPointer as the optimizing builds run it when it is called on an
\* object that stays in use: the store m_shared_pointer_data = nullptr, the
\* last write to an object whose lifetime has ended, is dropped
sp_destroy_keep_pointer(s, h) ==
    IF s.handles[h] # NULLPTR
    THEN [release(s, s.handles[h]) EXCEPT !.kept = @ + 1]
    ELSE s

\* ~ISharedPointer
sp_destroy(s, h) ==
    IF s.handles[h] # NULLPTR
    THEN [release(s, s.handles[h]) EXCEPT !.handles[h] = NULLPTR]
    ELSE s

\* operator=(const ISharedPointer &other)
sp_copy_assign(s, dst, src) ==
    IF dst # src
    THEN LET d == sp_destroy(s, dst)
             t == [d EXCEPT !.handles[dst] = d.handles[src]]
         IN IF t.handles[dst] # NULLPTR THEN acquire(t, t.handles[dst]) ELSE t
    ELSE s

\* operator=(ISharedPointer &&other)
sp_move_assign(s, dst, src) ==
    IF dst # src
    THEN LET d == sp_destroy(s, dst) IN
         [d EXCEPT !.handles[dst] = d.handles[src], !.handles[src] = NULLPTR]
    ELSE s

\* m_data->reference_count++ as Window and Engine write it, without a test
\* of m_data: on a null m_data the behaviour is undefined
acquire_unchecked(t, dst) ==
    IF t.handles[dst] # NULLPTR THEN acquire(t, t.handles[dst])
    ELSE [t EXCEPT !.undefined = TRUE]

\* Window::Window(const Settings &) when SDL_CreateWindow fails: the Data p
\* that new has given is deleted and the constructor throws
window_new_failed(s, p) ==
    [s EXCEPT !.payloads[p] = [NoPayload EXCEPT !.state = "freed", !.frees = 1]]

\* Window::Window(const Window &other), Engine::Engine(const Engine &other)
window_copy_construct(s, dst, src) ==
    acquire_unchecked([s EXCEPT !.handles[dst] = s.handles[src]], dst)

\* the assignment after the destructor call of Window::operator=(const
\* Window &): d is the state the destructor left
window_copy_assigned(d, dst, src) ==
    acquire_unchecked([d EXCEPT !.handles[dst] = d.handles[src]], dst)

\* Window::operator=(const Window &other), Engine::operator=(const Engine &)
window_copy_assign(s, dst, src) ==
    IF dst # src THEN window_copy_assigned(sp_destroy(s, dst), dst, src) ELSE s

\* the end of the lifetime of a handle object: its destructor runs and the
\* object is gone
sp_end_of_scope(s, h) == [sp_destroy(s, h) EXCEPT !.handles[h] = NoObject]

\* push_back of a copy of a handle of CopiedPayload into the container
copies_push(s) == [acquire(s, CopiedPayload) EXCEPT !.copies = @ + 1]

\* pop_back of the container: the destructor of one of its handles
copies_pop(s) == [release(s, CopiedPayload) EXCEPT !.copies = @ - 1]

\* the number of handles that point to the payload
Referrers(s, p) ==
    Cardinality({h \in HandleNames : s.handles[h] = p})
        + (IF p = CopiedPayload THEN s.copies ELSE 0)

(***************************************************************************)
(* Optional<T>: m_has_value and m_value.  The values of T are those of     *)
(* Values; an m_value that was never initialized is Indeterminate (no      *)
(* method reads m_value while m_has_value is false).                       *)
(***************************************************************************)
Indeterminate == -2

OptionalNames == {"x", "y"}

\* Optional() = default, and Optional(None)
NewOptional == [m_has_value |-> FALSE, m_value |-> Indeterminate]

\* Optional(const T &value), Optional(T &&value)
optional_of(value) == [m_has_value |-> TRUE, m_value |-> value]

\* the Optional objects an Optional is assigned from: a named one or a
\* temporary, Optional(NONE) or Optional(value)
Temporaries == {NewOptional} \cup {optional_of(v) : v \in Values}

\* operator=(const Optional &other), operator=(Optional &&other): for the
\* values of T a move is a copy, and other is left as it was
opt_assign_optional(o, other) ==
    [m_has_value |-> other.m_has_value,
     m_value     |-> IF other.m_has_value THEN other.m_value ELSE o.m_value]

\* operator=(const T &value), operator=(T &&value)
opt_assign_value(o, value) == [m_has_value |-> TRUE, m_value |-> value]

\* operator=(const None &)
opt_assign_none(o) == [m_has_value |-> FALSE, m_value |-> DefaultT]

\* Optional::has_value
has_value(o) == o.m_has_value

\* Optional::value: [err: the exception thrown, value: the value returned]
opt_value(o) ==
    IF ~o.m_has_value
    THEN [err |-> "runtime_error", value |-> NONE]
    ELSE [err |-> "none", value |-> o.m_value]

\* opt.value() = v, opt->field = v: a store through the reference returned
\* by value(): [o, err]
opt_store(o, value) ==
    IF opt_value(o).err # "none"
    THEN [o |-> o, err |-> opt_value(o).err]
    ELSE [o |-> [o EXCEPT !.m_value = value], err |-> "none"]

\* take that leaves m_has_value as it is
opt_take_keep(o) ==
    IF ~o.m_has_value
    THEN [o |-> o, err |-> "runtime_error", value |-> NONE]
    ELSE [o |-> o, err |-> "none", value |-> o.m_value]

\* Optional::take: [o: the Optional after the call, err, value]
opt_take(o) ==
    IF ~o.m_has_value
    THEN [o |-> o, err |-> "runtime_error", value |-> NONE]
    ELSE [o |-> [o EXCEPT !.m_has_value = FALSE], err |-> "none", value |-> o.m_value]

(***************************************************************************)
(* The HashMap object and its calls.                                       *)
(*   hlast: the last call, its arguments, the exception it threw and what  *)
(*          its code saw (was_present: the key was present; for clear,     *)
(*          the table held a key);                                         *)
(*   href:  for each key, the value of the last successful store to it     *)
(*          (set, operator[]) since it was last removed or cleared, or     *)
(*          NONE.                                                          *)
(* A method called on a HashMap whose m_data is nullptr (moved from or     *)
(* destroyed) dereferences the null pointer, as the copy assignment from   *)
(* such a HashMap does: the process aborts (hlast.op = "abort").  A call   *)
(* that reads or deletes a deleted Data has undefined behaviour: the       *)
(* process aborts, or the call returns and the content of the HashMap is   *)
(* indeterminate from then on (hlast.op = "undefined").  No call follows   *)
(* either.                                                                 *)
(***************************************************************************)
NoCall ==
    [op |-> "new", key |-> 0, err |-> "none", was_present |-> FALSE,
     deleted_index |-> -1, block_size |-> 0]

\* the process runs: no call has aborted it or left it undefined
HmRunning == hlast.op \notin {"abort", "undefined"}

HmCall(op, key, err) ==
    [op |-> op, key |-> key, err |-> err,
     was_present   |-> IF op = "clear" THEN count(hm) > 0 ELSE exists(hm, key),
     deleted_index |-> IF op = "remove" THEN remove_scan_of(hm, key).deleted_index ELSE -1,
     block_size    |-> IF op = "remove" THEN remove_scan_of(hm, key).block_size ELSE 0]

HmSet(k, v) ==
    LET r == set(hm, k, v) IN
    /\ has_data(hm)
    /\ hm' = r.h
    /\ hlast' = HmCall("set", k, r.err)
    /\ href' = IF r.err = "none" THEN [href EXCEPT ![k] = v] ELSE href
    /\ UNCHANGED <<mapVars, storageVars, handleVars, optionalVars>>

HmIndex(k) ==
    LET r == index_op(hm, k) IN
    /\ has_data(hm)
    /\ hm' = r.h
    /\ hlast' = HmCall("index", k, r.err)
    /\ href' = IF r.err = "none" /\ href[k] = NONE THEN [href EXCEPT ![k] = 0] ELSE href
    /\ UNCHANGED <<mapVars, storageVars, handleVars, optionalVars>>

HmIndexAssign(k, v) ==
    LET r == index_assign(hm, k, v) IN
    /\ has_data(hm)
    /\ hm' = r.h
    /\ hlast' = HmCall("index_assign", k, r.err)
    /\ href' = IF r.err = "none" THEN [href EXCEPT ![k] = v] ELSE href
    /\ UNCHANGED <<mapVars, storageVars, handleVars, optionalVars>>

HmRemove(k) ==
    /\ has_data(hm)
    /\ hm' = remove(hm, k)
    /\ hlast' = HmCall("remove", k, "none")
    /\ href' = [href EXCEPT ![k] = NONE]
    /\ UNCHANGED <<mapVars, storageVars, handleVars, optionalVars>>

HmClear ==
    /\ has_data(hm)
    /\ hm' = clear(hm)
    /\ hlast' = HmCall("clear", 0, "none")
    /\ href' = [k \in Keys |-> NONE]
    /\ UNCHANGED <<mapVars, storageVars, handleVars, optionalVars>>

\* hm = o, o another HashMap
HmCopyAssign(o) ==
    LET r == copy_assign(hm, o.h) IN
    /\ HmRunning /\ hm # FreedData
    /\ hm' = r.h
    /\ hlast' = [NoCall EXCEPT !.op = IF r.undefined THEN "abort" ELSE "copy_assign"]
    /\ href' = o.stored
    /\ UNCHANGED <<mapVars, storageVars, handleVars, optionalVars>>

\* hm = std::move(o), o another HashMap
HmMoveAssign(o) ==
    /\ HmRunning /\ hm # FreedData
    /\ hm' = move_assign(hm, o.h)
    /\ hlast' = [NoCall EXCEPT !.op = "move_assign"]
    /\ href' = o.stored
    /\ UNCHANGED <<mapVars, storageVars, handleVars, optionalVars>>

\* hm = hm and hm = std::move(hm): this == &other, nothing is done
HmAssignSelf ==
    /\ HmRunning
    /\ hm' = hm
    /\ hlast' = [NoCall EXCEPT !.op = "assign_self"]
    /\ href' = href
    /\ UNCHANGED <<mapVars, storageVars, handleVars, optionalVars>>

\* HashMap o(std::move(hm)) and o = std::move(hm): hm is the moved-from map
HmMoveFrom ==
    /\ HmRunning
    /\ hm' = moved_from(hm)
    /\ hlast' = [NoCall EXCEPT !.op = "move_from"]
    /\ href' = [k \in Keys |-> NONE]
    /\ UNCHANGED <<mapVars, storageVars, handleVars, optionalVars>>

\* hm.~HashMap() on an object that stays in use
HmDestroy ==
    /\ HmRunning /\ hm # FreedData
    /\ hm' \in destroyed(hm)
    /\ hlast' = [NoCall EXCEPT !.op = "destroy"]
    /\ href' = [k \in Keys |-> NONE]
    /\ UNCHANGED <<mapVars, storageVars, handleVars, optionalVars>>

\* get, exists, count, set, operator[], remove, clear, begin or end of a
\* HashMap whose m_data is nullptr: m_data->capacity or m_data->count is read
HmDereferenceNull ==
    /\ hm = NullData
    /\ HmRunning
    /\ hm' = hm
    /\ hlast' = [NoCall EXCEPT !.op = "abort"]
    /\ href' = href
    /\ UNCHANGED <<mapVars, storageVars, handleVars, optionalVars>>

\* a method, an assignment from another HashMap or the destructor, called
\* on a HashMap whose m_data is the address of a deleted Data: the Data is
\* read, written or deleted a second time
HmUseFreed ==
    /\ hm = FreedData
    /\ HmRunning
    /\ hm' = hm
    /\ \E op \in {"abort", "undefined"} : hlast' = [NoCall EXCEPT !.op = op]
    /\ href' = href
    /\ UNCHANGED <<mapVars, storageVars, handleVars, optionalVars>>

NoInsertions == [order |-> <<>>, only_sets |-> TRUE]

OtherCalls == [order |-> <<>>, only_sets |-> FALSE]

NoMapCall == [op |-> "new", key |-> NULL_KEY, err |-> "none", pre_index |-> NONE]

NoStorageCall ==
    [op |-> "new", id |-> NULL_ID, err |-> "none", result |-> NONE, pushes |-> 0,
     assigned |-> FALSE]

NoHandleCall == [op |-> "new", dst |-> "none", src |-> "none", src_valid |-> FALSE]

NoOptionalCall ==
    [op |-> "new", name |-> "none", err |-> "none", result |-> NONE, had_value |-> FALSE]

Init ==
    /\ hm = NewHashMap
    /\ hlast = NoCall
    /\ href = [k \in Keys |-> NONE]
    /\ mp = NewMap
    /\ mlast = NoMapCall
    /\ mins = NoInsertions
    /\ st = NewStorage
    /\ slast = NoStorageCall
    /\ sp = NewHandles
    /\ plast = NoHandleCall
    /\ opt = [n \in OptionalNames |-> NewOptional]
    /\ oref = [n \in OptionalNames |-> NONE]
    /\ olast = NoOptionalCall

NextHashMap ==
    \/ \E k \in Keys, v \in Values : HmSet(k, v)
    \/ \E k \in Keys : HmIndex(k)
    \/ \E k \in Keys, v \in Values : HmIndexAssign(k, v)
    \/ \E k \in Keys : HmRemove(k)
    \/ HmClear
    \/ \E o \in OtherHashMaps : HmCopyAssign(o)
    \/ \E o \in OtherHashMaps : HmMoveAssign(o)
    \/ HmAssignSelf
    \/ HmMoveFrom
    \/ HmDestroy
    \/ HmDereferenceNull
    \/ HmUseFreed

SpecHashMap == Init /\ [][NextHashMap]_vars

(***************************************************************************)
(* The calls of the Map object.  A call that would grow the vector beyond  *)
(* MaxLen is not made, and set(NULL_KEY, v) is called with v = T() only    *)
(* (the Map never reads a value).                                          *)
(*   mlast: the last call, its key, the exception it threw, and the index  *)
(*          the key had in the vector before the call (NONE when absent);  *)
(*   mins:  order, the keys in the order of the calls that inserted them,  *)
(*          and only_sets, whether every call so far was a set or an       *)
(*          operator[] (the order is no longer kept once it was not).      *)
(***************************************************************************)
MpCall(op, key, err) ==
    [op |-> op, key |-> key, err |-> err, pre_index |-> get(mp.hash_map, key)]

\* the process runs and the Map is alive: no call has aborted the process
\* or left it undefined, and mp.~Map() was not called
MpRunning == mlast.op \notin {"abort", "undefined", "destroy"}

\* mins after a set or an operator[] of the key that ended with err
Inserted(key, err) ==
    IF mins.only_sets /\ err = "none" /\ ~map_exists(mp, key)
    THEN [mins EXCEPT !.order = Append(@, key)]
    ELSE mins

MpSet(k, v) ==
    LET r == map_set(mp, k, v) IN
    /\ MpRunning /\ map_has_data(mp) /\ map_in_range(mp, k)
    /\ map_exists(mp, k) \/ Len(mp.storage) < MaxLen
    /\ k = NULL_KEY => v = DefaultT
    /\ mp' = r.m
    /\ mlast' = MpCall("set", k, r.err)
    /\ mins' = Inserted(k, r.err)
    /\ UNCHANGED <<hashMapVars, storageVars, handleVars, optionalVars>>

\* map[k]; u is the value of the default-initialised m_value
MpIndex(k, u) ==
    LET r == map_index(mp, k, u) IN
    /\ MpRunning /\ map_has_data(mp) /\ map_in_range(mp, k)
    /\ map_exists(mp, k) \/ Len(mp.storage) < MaxLen
    /\ mp' = r.m
    /\ mlast' = MpCall("index", k, r.err)
    /\ mins' = Inserted(k, r.err)
    /\ UNCHANGED <<hashMapVars, storageVars, handleVars, optionalVars>>

\* map[k] = v; u is the value of the default-initialised m_value, which v
\* replaces unless operator[] throws
MpIndexAssign(k, v, u) ==
    LET r == map_index_assign(mp, k, v, u) IN
    /\ MpRunning /\ map_has_data(mp) /\ map_in_range(mp, k)
    /\ map_exists(mp, k) \/ Len(mp.storage) < MaxLen
    /\ k = NULL_KEY => v = DefaultT
    /\ mp' = r.m
    /\ mlast' = MpCall("index_assign", k, r.err)
    /\ mins' = Inserted(k, r.err)
    /\ UNCHANGED <<hashMapVars, storageVars, handleVars, optionalVars>>

\* remove(NULL_KEY) returns before m_hash_map.m_data is read
MpRemove(k) ==
    LET r == map_remove(mp, k) IN
    /\ MpRunning
    /\ map_has_data(mp) \/ k = NULL_KEY
    /\ map_in_range(mp, k)
    /\ mp' = r.m
    /\ mlast' = MpCall("remove", k, r.err)
    /\ mins' = OtherCalls
    /\ UNCHANGED <<hashMapVars, storageVars, handleVars, optionalVars>>

MpClear ==
    /\ MpRunning /\ map_has_data(mp)
    /\ mp' = map_clear(mp)
    /\ mlast' = MpCall("clear", NULL_KEY, "none")
    /\ mins' = OtherCalls
    /\ UNCHANGED <<hashMapVars, storageVars, handleVars, optionalVars>>

\* mp = o, o another Map
MpCopyAssign(o) ==
    LET r == map_copy_assign(mp, o) IN
    /\ MpRunning
    /\ mp' = r.m
    /\ mlast' = [NoMapCall EXCEPT !.op = IF r.undefined THEN "abort" ELSE "copy_assign"]
    /\ mins' = OtherCalls
    /\ UNCHANGED <<hashMapVars, storageVars, handleVars, optionalVars>>

\* mp = std::move(o), o another Map
MpMoveAssign(o) ==
    /\ MpRunning
    /\ mp' = map_move_assign(mp, o)
    /\ mlast' = [NoMapCall EXCEPT !.op = "move_assign"]
    /\ mins' = OtherCalls
    /\ UNCHANGED <<hashMapVars, storageVars, handleVars, optionalVars>>

\* mp = mp: the HashMap sees this == &other, the vector is assigned itself
MpAssignSelf ==
    /\ MpRunning
    /\ mp' = mp
    /\ mlast' = [NoMapCall EXCEPT !.op = "assign_self"]
    /\ mins' = mins
    /\ UNCHANGED <<hashMapVars, storageVars, handleVars, optionalVars>>

\* Map o(std::move(mp)) and o = std::move(mp): mp is the moved-from Map
MpMoveFrom ==
    /\ MpRunning
    /\ mp' = map_moved_from(mp)
    /\ mlast' = [NoMapCall EXCEPT !.op = "move_from"]
    /\ mins' = OtherCalls
    /\ UNCHANGED <<hashMapVars, storageVars, handleVars, optionalVars>>

\* mp = std::move(mp)
MpMoveAssignSelf ==
    /\ MpRunning
    /\ mp' = map_move_assign_self(mp)
    /\ mlast' = [NoMapCall EXCEPT !.op = "move_assign_self"]
    /\ mins' = OtherCalls
    /\ UNCHANGED <<hashMapVars, storageVars, handleVars, optionalVars>>

\* mp.~Map() on an object that stays in use: ~vector deletes the elements
\* and leaves its pointers, ~HashMap deletes the Data.  Every later call
\* works on an object whose lifetime has ended.
MpDestroy ==
    /\ MpRunning
    /\ \E d \in destroyed(mp.hash_map) : mp' = [hash_map |-> d, storage |-> mp.storage]
    /\ mlast' = [NoMapCall EXCEPT !.op = "destroy"]
    /\ mins' = OtherCalls
    /\ UNCHANGED <<hashMapVars, storageVars, handleVars, optionalVars>>

\* count, exists, get, set, operator[], remove or clear of a Map whose
\* m_hash_map has no Data: the call of the HashMap dereferences m_data
MpDereferenceNull ==
    /\ mp.hash_map = NullData
    /\ MpRunning
    /\ mp' = mp
    /\ mlast' = [NoMapCall EXCEPT !.op = "abort"]
    /\ mins' = mins
    /\ UNCHANGED <<hashMapVars, storageVars, handleVars, optionalVars>>

\* get and a read, set, operator[] and a store, or remove, of a key whose
\* index is not an index of m_storage (the vector was emptied since the key
\* was stored): an access outside the elements of the vector, which is
\* undefined behaviour.  The process aborts, or the call returns: the
\* access has touched memory that is not the Map's, and remove has gone on
\* to pop_back and m_hash_map.remove.
MpOutOfRange(k) ==
    /\ MpRunning /\ map_has_data(mp) /\ ~map_in_range(mp, k)
    /\ \/ mp' = mp /\ mlast' = [NoMapCall EXCEPT !.op = "abort"]
       \/ mp' = mp /\ mlast' = [NoMapCall EXCEPT !.op = "undefined"]
       \/ /\ Len(mp.storage) > 0
          /\ mp' = map_remove_out_of_range(mp, k)
          /\ mlast' = [NoMapCall EXCEPT !.op = "undefined"]
    /\ mins' = OtherCalls
    /\ UNCHANGED <<hashMapVars, storageVars, handleVars, optionalVars>>

\* a call on the Map after mp.~Map(): it reads or frees the deleted
\* elements or the deleted Data
MpUseDestroyed ==
    /\ mlast.op = "destroy"
    /\ mp' = mp
    /\ \E op \in {"abort", "undefined"} : mlast' = [NoMapCall EXCEPT !.op = op]
    /\ mins' = mins
    /\ UNCHANGED <<hashMapVars, storageVars, handleVars, optionalVars>>

NextMap ==
    \/ \E k \in MapKeys, v \in Values : MpSet(k, v)
    \/ \E k \in MapKeys, u \in Values : MpIndex(k, u)
    \/ \E k \in MapKeys, v \in Values, u \in Values : MpIndexAssign(k, v, u)
    \/ \E k \in MapKeys : MpRemove(k)
    \/ MpClear
    \/ \E o \in OtherMaps : MpCopyAssign(o)
    \/ \E o \in OtherMaps : MpMoveAssign(o)
    \/ MpAssignSelf
    \/ MpMoveAssignSelf
    \/ MpMoveFrom
    \/ MpDestroy
    \/ MpDereferenceNull
    \/ \E k \in MapKeys : MpOutOfRange(k)
    \/ MpUseDestroyed

SpecMap == Init /\ [][NextMap]_vars

(***************************************************************************)
(* The calls of the Storage object.                                        *)
(*   slast: the last call, its id argument (for push, NULL_ID), the        *)
(*          exception it threw, the id or value it returned (NONE when it  *)
(*          returned nothing), whether the Storage was assigned another    *)
(*          Storage (st = o, st = std::move(o)), and the number of push    *)
(*          calls made on the Storage since its construction, as long as   *)
(*          it was not assigned another Storage (0 once it was).           *)
(***************************************************************************)
StAssigned(op) == slast.assigned \/ op \in {"copy_assign", "move_assign"}

StCall(op, id, err, result, pushes) ==
    [op |-> op, id |-> id, err |-> err, result |-> result,
     pushes   |-> IF StAssigned(op) THEN 0 ELSE pushes,
     assigned |-> StAssigned(op)]

\* the process runs and the Storage is alive
StRunning == slast.op \notin {"abort", "undefined", "destroy"}

\* the call reaches m_hash_map.get(id), which returns for NULL_ID before it
\* reads m_data, and the index it finds is an index of the vector
StReachable(id) ==
    /\ StRunning
    /\ storage_has_data(st) \/ id = NULL_ID
    /\ map_in_range(st.map, id)

StPush(v) ==
    LET r == storage_push(st, v) IN
    /\ StRunning /\ storage_has_data(st)
    /\ st.id_counter < MaxPush
    /\ st' = r.s
    /\ slast' = StCall("push", NULL_ID, r.err, r.id, slast.pushes + 1)
    /\ UNCHANGED <<hashMapVars, mapVars, handleVars, optionalVars>>

StIndex(id) ==
    LET r == storage_index(st, id) IN
    /\ StReachable(id)
    /\ st' = r.s
    /\ slast' = StCall("index", id, r.err, r.value, slast.pushes)
    /\ UNCHANGED <<hashMapVars, mapVars, handleVars, optionalVars>>

\* storage[id] = v
StIndexAssign(id, v) ==
    LET r == storage_index_assign(st, id, v) IN
    /\ StReachable(id)
    /\ st' = r.s
    /\ slast' = StCall("index_assign", id, r.err, r.value, slast.pushes)
    /\ UNCHANGED <<hashMapVars, mapVars, handleVars, optionalVars>>

\* a store of v through storage.get(id), when it is not null
StGetStore(id, v) ==
    /\ StReachable(id)
    /\ st' = storage_get_store(st, id, v)
    /\ slast' = StCall("get_store", id, "none", storage_get(st, id), slast.pushes)
    /\ UNCHANGED <<hashMapVars, mapVars, handleVars, optionalVars>>

\* the loop of the test that adds d to every value; it is not run when a
\* value would leave 0..MaxValue.  begin() and end() are those of the
\* vector: the HashMap is not read.
StIterateAdd(d) ==
    /\ StRunning
    /\ \A i \in 1..Len(st.map.storage) : st.map.storage[i].value + d <= MaxValue
    /\ st' = storage_iterate_add(st, d)
    /\ slast' = StCall("iterate_add", NULL_ID, "none", NONE, slast.pushes)
    /\ UNCHANGED <<hashMapVars, mapVars, handleVars, optionalVars>>

StRemove(id) ==
    LET r == storage_remove(st, id) IN
    /\ StReachable(id)
    /\ st' = r.s
    /\ slast' = StCall("remove", id, r.err, NONE, slast.pushes)
    /\ UNCHANGED <<hashMapVars, mapVars, handleVars, optionalVars>>

StClear ==
    /\ StRunning /\ storage_has_data(st)
    /\ st' = storage_clear(st)
    /\ slast' = StCall("clear", NULL_ID, "none", NONE, slast.pushes)
    /\ UNCHANGED <<hashMapVars, mapVars, handleVars, optionalVars>>

\* st = o, o another Storage (Storage st(o) leaves st as st = o leaves a new
\* Storage)
StCopyAssign(o) ==
    LET r == storage_copy_assign(st, o) IN
    /\ StRunning
    /\ st' = r.s
    /\ slast' = [StCall(IF r.undefined THEN "abort" ELSE "copy_assign",
                        NULL_ID, "none", NONE, slast.pushes)
                    EXCEPT !.assigned = TRUE, !.pushes = 0]
    /\ UNCHANGED <<hashMapVars, mapVars, handleVars, optionalVars>>

\* st = std::move(o), o another Storage (Storage st(std::move(o)) leaves st
\* as st = std::move(o) leaves a new Storage)
StMoveAssign(o) ==
    /\ StRunning
    /\ st' = storage_move_assign(st, o)
    /\ slast' = StCall("move_assign", NULL_ID, "none", NONE, slast.pushes)
    /\ UNCHANGED <<hashMapVars, mapVars, handleVars, optionalVars>>

\* st = st: the counter, the HashMap and the vector are assigned themselves
StAssignSelf ==
    /\ StRunning
    /\ st' = st
    /\ slast' = StCall("assign_self", NULL_ID, "none", NONE, slast.pushes)
    /\ UNCHANGED <<hashMapVars, mapVars, handleVars, optionalVars>>

\* st = std::move(st)
StMoveAssignSelf ==
    /\ StRunning
    /\ st' = storage_move_assign_self(st)
    /\ slast' = StCall("move_assign_self", NULL_ID, "none", NONE, slast.pushes)
    /\ UNCHANGED <<hashMapVars, mapVars, handleVars, optionalVars>>

\* Storage o(std::move(st)) and o = std::move(st): st is the moved-from
\* Storage
StMoveFrom ==
    /\ StRunning
    /\ st' = storage_moved_from(st)
    /\ slast' = StCall("move_from", NULL_ID, "none", NONE, slast.pushes)
    /\ UNCHANGED <<hashMapVars, mapVars, handleVars, optionalVars>>

\* st.~Storage() on an object that stays in use: the destructor of m_map
StDestroy ==
    /\ StRunning
    /\ \E d \in destroyed(st.map.hash_map) : st' = [st EXCEPT !.map.hash_map = d]
    /\ slast' = StCall("destroy", NULL_ID, "none", NONE, slast.pushes)
    /\ UNCHANGED <<hashMapVars, mapVars, handleVars, optionalVars>>

\* push, count, exists, clear, or get, operator[] or remove of an id other
\* than NULL_ID, of a Storage whose m_map was moved from: the HashMap
\* dereferences m_data
StDereferenceNull ==
    /\ StRunning
    /\ st.map.hash_map = NullData
    /\ st' = st
    /\ slast' = StCall("abort", NULL_ID, "none", NONE, slast.pushes)
    /\ UNCHANGED <<hashMapVars, mapVars, handleVars, optionalVars>>

\* get and a read or a store, operator[] or remove of an id whose index is
\* not an index of the vector: as MpOutOfRange
StOutOfRange(id) ==
    /\ StRunning /\ storage_has_data(st) /\ ~map_in_range(st.map, id)
    /\ \/ st' = st /\ slast' = StCall("abort", id, "none", NONE, slast.pushes)
       \/ st' = st /\ slast' = StCall("undefined", id, "none", NONE, slast.pushes)
       \/ /\ Len(st.map.storage) > 0
          /\ st' = [st EXCEPT !.map = map_remove_out_of_range(st.map, id)]
          /\ slast' = StCall("undefined", id, "none", NONE, slast.pushes)
    /\ UNCHANGED <<hashMapVars, mapVars, handleVars, optionalVars>>

\* a call on the Storage after st.~Storage()
StUseDestroyed ==
    /\ slast.op = "destroy"
    /\ st' = st
    /\ \E op \in {"abort", "undefined"} :
           slast' = StCall(op, NULL_ID, "none", NONE, slast.pushes)
    /\ UNCHANGED <<hashMapVars, mapVars, handleVars, optionalVars>>

NextStorage ==
    \/ \E v \in Values : StPush(v)
    \/ \E id \in Ids : StIndex(id)
    \/ \E id \in Ids, v \in Values : StIndexAssign(id, v)
    \/ \E id \in Ids, v \in Values : StGetStore(id, v)
    \/ \E d \in 1..MaxValue : StIterateAdd(d)
    \/ \E id \in Ids : StRemove(id)
    \/ StClear
    \/ \E o \in OtherStorages : StCopyAssign(o)
    \/ \E o \in OtherStorages : StMoveAssign(o)
    \/ StAssignSelf
    \/ StMoveAssignSelf
    \/ StMoveFrom
    \/ StDestroy
    \/ StDereferenceNull
    \/ \E id \in Ids : StOutOfRange(id)
    \/ StUseDestroyed

SpecStorage == Init /\ [][NextStorage]_vars

(***************************************************************************)
(* The calls on the handles.                                               *)
(*   plast: the last call, the handle it wrote (dst), the handle it read   *)
(*          (src), and whether src was valid before the call.              *)
(* A call that reads or writes the reference count of a freed payload has  *)
(* undefined behaviour: it either returns with the result computed on the  *)
(* memory at that address, or the process aborts (plast.op = "abort").     *)
(* No call follows undefined behaviour.                                    *)
(***************************************************************************)
SpCall(op, dst, src) ==
    [op |-> op, dst |-> dst, src |-> src,
     src_valid |-> src \in HandleNames /\ sp.handles[src] \in Payloads]

Constructed(h) == sp.handles[h] # NoObject

\* a call that, when it returns, gives next
SpStep(op, dst, src, next) ==
    /\ ~sp.undefined /\ plast.op # "abort"
    /\ \/ /\ sp' = next
          /\ plast' = SpCall(op, dst, src)
       \/ /\ next.undefined
          /\ sp' = sp
          /\ plast' = SpCall("abort", dst, src)
    /\ UNCHANGED <<hashMapVars, mapVars, storageVars, optionalVars>>

\* the memory of the payload f was freed and new has not used it since
Reusable(f) == sp.payloads[f].state = "freed" /\ sp.payloads[f].reused_by = "none"

SpNew(h) ==
    /\ ~Constructed(h)
    /\ \E p \in Payloads :
           /\ sp.payloads[p].state = "unallocated"
           /\ \/ SpStep("new", h, "none", sp_new(sp, h, p))
              \/ \E f \in Payloads :
                     Reusable(f) /\ SpStep("new", h, "none", sp_new_reusing(sp, h, p, f))

SpDefault(h) ==
    /\ ~Constructed(h)
    /\ SpStep("default", h, "none", sp_default(sp, h))

SpCopyConstruct(dst, src) ==
    /\ ~Constructed(dst) /\ Constructed(src)
    /\ SpStep("copy_construct", dst, src, sp_copy_construct(sp, dst, src))

SpMoveConstruct(dst, src) ==
    /\ ~Constructed(dst) /\ Constructed(src)
    /\ SpStep("move_construct", dst, src, sp_move_construct(sp, dst, src))

SpCopyAssign(dst, src) ==
    /\ Constructed(dst) /\ Constructed(src)
    /\ SpStep("copy_assign", dst, src, sp_copy_assign(sp, dst, src))

SpMoveAssign(dst, src) ==
    /\ Constructed(dst) /\ Constructed(src)
    /\ SpStep("move_assign", dst, src, sp_move_assign(sp, dst, src))

\* h.~ISharedPointer(): the handle object stays, and may be destroyed
\* again.  Its pointer is nullptr afterwards, or, in the builds that drop
\* the store, what it was, at every call.
SpDestroy(h) ==
    /\ Constructed(h)
    /\ sp.kept < MaxKept
    /\ \/ SpStep("destroy", h, h, sp_destroy(sp, h))
       \/ SpStep("destroy", h, h, sp_destroy_keep_pointer(sp, h))

SpEndOfScope(h) ==
    /\ Constructed(h)
    /\ SpStep("end_of_scope", h, h, sp_end_of_scope(sp, h))

CopiesPush ==
    /\ sp.copies < MaxCopies
    /\ Referrers(sp, CopiedPayload) > 0
    /\ SpStep("copies_push", "copies", "copies", copies_push(sp))

CopiesPop ==
    /\ sp.copies > 0
    /\ SpStep("copies_pop", "copies", "copies", copies_pop(sp))

NextHandles ==
    \/ \E h \in HandleNames : SpNew(h)
    \/ \E h \in HandleNames : SpDefault(h)
    \/ \E dst, src \in HandleNames : SpCopyConstruct(dst, src)
    \/ \E dst, src \in HandleNames : SpMoveConstruct(dst, src)
    \/ \E dst, src \in HandleNames : SpCopyAssign(dst, src)
    \/ \E dst, src \in HandleNames : SpMoveAssign(dst, src)
    \/ \E h \in HandleNames : SpDestroy(h)
    \/ \E h \in HandleNames : SpEndOfScope(h)
    \/ CopiesPush
    \/ CopiesPop

SpecHandles == Init /\ [][NextHandles]_vars

(***************************************************************************)
(* The calls on the Optional objects.                                      *)
(*   oref:  for each Optional, the value the most recent operation that    *)
(*          changed it stored in it, or NONE when that operation stored    *)
(*          no value (or none was made);                                   *)
(*   olast: the last call, the Optional it was made on, the exception it   *)
(*          threw, the value it returned (NONE when it returned none) and  *)
(*          whether the Optional had a value before the call.              *)
(***************************************************************************)
OptCall(op, n, err, result) ==
    [op |-> op, name |-> n, err |-> err, result |-> result,
     had_value |-> has_value(opt[n])]

\* the Optional objects the Optional n can be assigned from
Others == {opt[m] : m \in OptionalNames} \cup Temporaries

OptAssignValue(n, v) ==
    /\ opt' = [opt EXCEPT ![n] = opt_assign_value(opt[n], v)]
    /\ oref' = [oref EXCEPT ![n] = v]
    /\ olast' = OptCall("assign_value", n, "none", NONE)
    /\ UNCHANGED <<hashMapVars, mapVars, storageVars, handleVars>>

OptAssignNone(n) ==
    /\ opt' = [opt EXCEPT ![n] = opt_assign_none(opt[n])]
    /\ oref' = [oref EXCEPT ![n] = NONE]
    /\ olast' = OptCall("assign_none", n, "none", NONE)
    /\ UNCHANGED <<hashMapVars, mapVars, storageVars, handleVars>>

OptAssignOptional(n, other) ==
    /\ opt' = [opt EXCEPT ![n] = opt_assign_optional(opt[n], other)]
    /\ oref' = [oref EXCEPT ![n] = IF other.m_has_value THEN other.m_value ELSE NONE]
    /\ olast' = OptCall("assign_optional", n, "none", NONE)
    /\ UNCHANGED <<hashMapVars, mapVars, storageVars, handleVars>>

OptValue(n) ==
    LET r == opt_value(opt[n]) IN
    /\ olast' = OptCall("value", n, r.err, r.value)
    /\ UNCHANGED <<opt, oref>>
    /\ UNCHANGED <<hashMapVars, mapVars, storageVars, handleVars>>

OptStore(n, v) ==
    LET r == opt_store(opt[n], v) IN
    /\ opt' = [opt EXCEPT ![n] = r.o]
    /\ oref' = IF r.err = "none" THEN [oref EXCEPT ![n] = v] ELSE oref
    /\ olast' = OptCall("store", n, r.err, NONE)
    /\ UNCHANGED <<hashMapVars, mapVars, storageVars, handleVars>>

OptTake(n) ==
    LET r == opt_take(opt[n]) IN
    /\ opt' = [opt EXCEPT ![n] = r.o]
    /\ oref' = IF r.err = "none" THEN [oref EXCEPT ![n] = NONE] ELSE oref
    /\ olast' = OptCall("take", n, r.err, r.value)
    /\ UNCHANGED <<hashMapVars, mapVars, storageVars, handleVars>>

NextOptional ==
    \/ \E n \in OptionalNames, v \in Values : OptAssignValue(n, v)
    \/ \E n \in OptionalNames : OptAssignNone(n)
    \/ \E n \in OptionalNames : \E other \in Others : OptAssignOptional(n, other)
    \/ \E n \in OptionalNames : OptValue(n)
    \/ \E n \in OptionalNames, v \in Values : OptStore(n, v)
    \/ \E n \in OptionalNames : OptTake(n)

SpecOptional == Init /\ [][NextOptional]_vars

(***************************************************************************)
(* The calls on the handles of Window and Engine, which write the idiom of *)
(* ISharedPointer out by hand: constructor, move, destructor and is_valid  *)
(* are those of ISharedPointer, the copy constructor and the copy          *)
(* assignment increment the count without a test of the pointer.           *)
(***************************************************************************)
WnCopyConstruct(dst, src) ==
    /\ ~Constructed(dst) /\ Constructed(src)
    /\ SpStep("copy_construct", dst, src, window_copy_construct(sp, dst, src))

WnCopyAssign(dst, src) ==
    /\ Constructed(dst) /\ Constructed(src)
    /\ SpStep("copy_assign", dst, src, window_copy_assign(sp, dst, src))

\* Window h(settings) that throws "Failed to create window": no Window is
\* constructed under the name h, the Data was allocated and deleted
WnNewFailed(h) ==
    /\ ~Constructed(h)
    /\ \E p \in Payloads :
           /\ sp.payloads[p].state = "unallocated"
           /\ \/ SpStep("new_failed", h, "none", window_new_failed(sp, p))
              \/ \E f \in Payloads :
                     /\ Reusable(f)
                     /\ SpStep("new_failed", h, "none",
                               [window_new_failed(sp, p) EXCEPT !.payloads[f].reused_by = p])

\* Window h(settings) when WINDOW_MANAGER is not initialized (no
\* Window(settings) has run: each of them that passes init allocates a
\* Data) and SDL_Init fails in WindowManager::init: exit(1), with the Data p
\* allocated (reference_count = 0) and not deleted
WnInitFailed(h) ==
    /\ ~sp.undefined /\ plast.op # "abort"
    /\ ~Constructed(h)
    /\ \A q \in Payloads : sp.payloads[q].state = "unallocated"
    /\ \E p \in Payloads :
           sp' = [sp EXCEPT !.payloads[p] = [NoPayload EXCEPT !.state = "live"]]
    /\ plast' = SpCall("abort", h, "none")
    /\ UNCHANGED <<hashMapVars, mapVars, storageVars, optionalVars>>

NextWindow ==
    \/ \E h \in HandleNames : SpNew(h)
    \/ \E h \in HandleNames : WnNewFailed(h)
    \/ \E h \in HandleNames : WnInitFailed(h)
    \/ \E h \in HandleNames : SpDefault(h)
    \/ \E dst, src \in HandleNames : WnCopyConstruct(dst, src)
    \/ \E dst, src \in HandleNames : SpMoveConstruct(dst, src)
    \/ \E dst, src \in HandleNames : WnCopyAssign(dst, src)
    \/ \E dst, src \in HandleNames : SpMoveAssign(dst, src)
    \/ \E h \in HandleNames : SpDestroy(h)
    \/ \E h \in HandleNames : SpEndOfScope(h)

SpecWindow == Init /\ [][NextWindow]_vars

(***************************************************************************)
(* The calls of a Storage whose Id has IdBits bits: the id counter wraps   *)
(* to 0 at the push that follows the push that returned 2 ^ IdBits - 1.    *)
(* Every push stores T(); the pushes are not counted in slast.             *)
(***************************************************************************)
WrappedIds == 0..(2 ^ IdBits - 1)

IdPush ==
    LET r == storage_push_w(st, DefaultT, IdBits) IN
    /\ StRunning /\ storage_has_data(st)
    /\ map_in_range(st.map, next_id(st, IdBits))
    /\ Len(st.map.storage) < MaxIdLen
    /\ st' = r.s
    /\ slast' = StCall("push", NULL_ID, r.err, r.id, slast.pushes)
    /\ UNCHANGED <<hashMapVars, mapVars, handleVars, optionalVars>>

\* the push of an id that the wrapped counter gives a second time, when the
\* id is still in the HashMap with an index that is not an index of the
\* vector (after st = std::move(st)): Map::set writes m_storage[index]
IdPushOutOfRange ==
    /\ StRunning /\ storage_has_data(st)
    /\ ~map_in_range(st.map, next_id(st, IdBits))
    /\ st' = [st EXCEPT !.id_counter = next_id(st, IdBits)]
    /\ \E op \in {"abort", "undefined"} :
           slast' = StCall(op, NULL_ID, "none", NONE, slast.pushes)
    /\ UNCHANGED <<hashMapVars, mapVars, handleVars, optionalVars>>

NextIds ==
    \/ IdPush
    \/ IdPushOutOfRange
    \/ \E id \in WrappedIds : StIndex(id)
    \/ \E id \in WrappedIds, v \in Values : StIndexAssign(id, v)
    \/ \E id \in WrappedIds, v \in Values : StGetStore(id, v)
    \/ \E d \in 1..MaxValue : StIterateAdd(d)
    \/ \E id \in WrappedIds : StRemove(id)
    \/ StClear
    \/ \E o \in OtherStorages : StCopyAssign(o)
    \/ \E o \in OtherStorages : StMoveAssign(o)
    \/ StAssignSelf
    \/ StMoveAssignSelf
    \/ StMoveFrom
    \/ StDestroy
    \/ StDereferenceNull
    \/ \E id \in WrappedIds : StOutOfRange(id)
    \/ StUseDestroyed

SpecIds == Init /\ [][NextIds]_vars

(***************************************************************************)
(* The calls of a HashMap whose size_t has SizeBits bits: its capacity     *)
(* cannot double beyond 2 ^ (SizeBits - 1).                                *)
(***************************************************************************)
MaxCapacity == 2 ^ (SizeBits - 1)

\* the operands of the assignments whose capacity fits the size_t
OvOtherHashMaps == {o \in OtherHashMaps : o.h.capacity <= MaxCapacity}

\* the call stores r.h and is recorded in hlast
OvStored(op, k, r) ==
    /\ HmRunning /\ has_data(hm)
    /\ hm' = r.h
    /\ hlast' = HmCall(op, k, r.err)
    /\ UNCHANGED <<mapVars, storageVars, handleVars, optionalVars>>

OvSet(k, v) ==
    /\ OvStored("set", k, set_w(hm, k, v, SizeBits))
    /\ href' = IF hlast'.err = "none" THEN [href EXCEPT ![k] = v] ELSE href

OvIndex(k) ==
    /\ OvStored("index", k, index_op_w(hm, k, SizeBits))
    /\ href' = IF hlast'.err = "none" /\ href[k] = NONE THEN [href EXCEPT ![k] = 0] ELSE href

OvIndexAssign(k, v) ==
    /\ OvStored("index_assign", k, index_assign_w(hm, k, v, SizeBits))
    /\ href' = IF hlast'.err = "none" THEN [href EXCEPT ![k] = v] ELSE href

NextOverflow ==
    \/ \E k \in Keys, v \in Values : OvSet(k, v)
    \/ \E k \in Keys : OvIndex(k)
    \/ \E k \in Keys, v \in Values : OvIndexAssign(k, v)
    \/ \E k \in Keys : HmRemove(k)
    \/ HmClear
    \/ \E o \in OvOtherHashMaps : HmCopyAssign(o)
    \/ \E o \in OvOtherHashMaps : HmMoveAssign(o)
    \/ HmAssignSelf
    \/ HmMoveFrom
    \/ HmDestroy
    \/ HmDereferenceNull
    \/ HmUseFreed

SpecOverflow == Init /\ [][NextOverflow]_vars

(***************************************************************************)
(* The first test of the HashMap: map.set(0, 0), which throws, then        *)
(* map.set(i + 1, values[i]) for the TEST_VALUES_COUNT values of the test. *)
(* The test stores the keys in ascending order; here each call stores the  *)
(* lowest or the highest key that was not stored yet, so that the keys     *)
(* reach the table in several orders.                                      *)
(***************************************************************************)
values ==
    <<4, 2, 27, 22, 999, 1, 55, 0, 100000, 28, 888,
      6432, 1, 999988, 4, 19, 32, 22, 11, 75, 99999999>>

\* the keys of the test that were not stored yet
NotStored == {k \in TestKeys : ~exists(hm, k)}
Lowest(S) == CHOOSE k \in S : \A k2 \in S : k <= k2
Highest(S) == CHOOSE k \in S : \A k2 \in S : k >= k2

\* map.set(key, value) of the test
TestSet(key, value) ==
    LET r == set(hm, key, value) IN
    /\ hm' = r.h
    /\ hlast' = HmCall("set", key, r.err)
    /\ UNCHANGED <<href, mapVars, storageVars, handleVars, optionalVars>>

\* EXPECT_THROWS(map.set(0, 0)), the first call of the test
TestSetNullKey ==
    /\ hlast.op = "new"
    /\ TestSet(NULL_KEY, 0)

TestSetLowest ==
    /\ NotStored # {}
    /\ TestSet(Lowest(NotStored), values[Lowest(NotStored)])

TestSetHighest ==
    /\ NotStored # {}
    /\ TestSet(Highest(NotStored), values[Highest(NotStored)])

NextGrowth ==
    \/ TestSetNullKey
    \/ TestSetLowest
    \/ TestSetHighest

SpecGrowth == Init /\ [][NextGrowth]_vars

(***************************************************************************)
(* The HashMap and the Map are independent objects.  A behaviour of        *)
(* SpecIndexing makes the calls of one of them.                            *)
(***************************************************************************)
OnHashMap(A) == mlast.op = "new" /\ A

OnMap(A) == hlast.op = "new" /\ A

NextIndexing ==
    \/ \E k \in Keys, v \in Values : OnHashMap(HmSet(k, v))
    \/ \E k \in Keys : OnHashMap(HmIndex(k))
    \/ \E k \in Keys, v \in Values : OnHashMap(HmIndexAssign(k, v))
    \/ \E k \in Keys : OnHashMap(HmRemove(k))
    \/ OnHashMap(HmClear)
    \/ \E o \in OtherHashMaps : OnHashMap(HmCopyAssign(o))
    \/ \E o \in OtherHashMaps : OnHashMap(HmMoveAssign(o))
    \/ OnHashMap(HmAssignSelf)
    \/ OnHashMap(HmMoveFrom)
    \/ OnHashMap(HmDestroy)
    \/ OnHashMap(HmDereferenceNull)
    \/ OnHashMap(HmUseFreed)
    \/ \E k \in MapKeys, v \in Values : OnMap(MpSet(k, v))
    \/ \E k \in MapKeys, u \in Values : OnMap(MpIndex(k, u))
    \/ \E k \in MapKeys, v \in Values, u \in Values : OnMap(MpIndexAssign(k, v, u))
    \/ \E k \in MapKeys : OnMap(MpRemove(k))
    \/ OnMap(MpClear)
    \/ \E o \in OtherMaps : OnMap(MpCopyAssign(o))
    \/ \E o \in OtherMaps : OnMap(MpMoveAssign(o))
    \/ OnMap(MpAssignSelf)
    \/ OnMap(MpMoveAssignSelf)
    \/ OnMap(MpMoveFrom)
    \/ OnMap(MpDestroy)
    \/ OnMap(MpDereferenceNull)
    \/ \E k \in MapKeys : OnMap(MpOutOfRange(k))
    \/ OnMap(MpUseDestroyed)

SpecIndexing == Init /\ [][NextIndexing]_vars

(***************************************************************************)
(* Claims on the HashMap (SpecHashMap).                                    *)
(***************************************************************************)
NonNullKeys == Keys \ {NULL_KEY}

\* C1: round trip.  In every reachable state of a HashMap that holds a table,
\* get(k) of every key k # 0 is the value of the most recent store to k (NONE
\* when k was never stored, or removed or cleared since), whatever the number
\* of capacity doublings.
C1_RoundTrip == has_data(hm) => \A k \in NonNullKeys : get(hm, k) = href[k]

\* C1 witness: every key is stored, the last call overwrote one of them, and
\* the capacity has doubled twice (2 -> 4 -> 8).
C1_Witness ==
    /\ hlast.op = "set" /\ hlast.was_present /\ hlast.err = "none"
    /\ hm.capacity >= 4 * DEFAULT_CAPACITY
    /\ \A k \in NonNullKeys : href[k] # NONE

\* C2: deletion repair.  A remove(k) of a present key k makes get(k) empty and
\* leaves get(k2) of every other key k2 as it was.
C2_DeletionRepair ==
    [][(hlast'.op = "remove" /\ exists(hm, hlast'.key)) =>
          /\ get(hm', hlast'.key) = NONE
          /\ \A k2 \in Keys \ {hlast'.key} : get(hm', k2) = get(hm, k2)]_vars

\* C2 witness: the removed key sat in slot 0 in the middle of a run that
\* wraps from the last slot to slot 0, one entry followed it, and that entry
\* has been re-inserted one slot earlier, into slot 0.
C2_Witness ==
    /\ hlast.op = "remove"
    /\ hlast.deleted_index = 0
    /\ hlast.block_size = 2
    /\ hm.entries[hm.capacity - 1].key # NULL_KEY
    /\ hm.entries[0].key # NULL_KEY
    /\ hm.entries[1].key = NULL_KEY

\* the number of distinct non-zero keys in the slots
PresentKeys(h) == {h.entries[i].key : i \in DOMAIN h.entries} \ {NULL_KEY}

C3_Count == has_data(hm) => count(hm) = Cardinality(PresentKeys(hm))

C3_Delta ==
    /\ hlast'.op \in {"set", "index", "index_assign"} /\ hlast'.err = "none" =>
           count(hm') = count(hm) + (IF exists(hm, hlast'.key) THEN 0 ELSE 1)
    /\ hlast'.op \in {"set", "index", "index_assign"} /\ hlast'.err # "none" =>
           count(hm') = count(hm)
    /\ hlast'.op = "remove" =>
           count(hm') = count(hm) - (IF exists(hm, hlast'.key) THEN 1 ELSE 0)
    /\ hlast'.op = "clear" => count(hm') = 0

\* C3: count.  In every reachable state of a HashMap that holds a table,
\* count() is the number of distinct non-zero keys in the table; a store to a present key leaves it, a store to
\* an absent key adds 1, a remove of a present key subtracts 1 and a remove of
\* an absent key leaves it.
C3_CountInvariant == []C3_Count /\ [][C3_Delta]_vars

\* C3 witness: a remove of a present key that re-inserted a displaced entry.
C3_Witness ==
    /\ hlast.op = "remove" /\ hlast.deleted_index # -1 /\ hlast.block_size >= 2
    /\ count(hm) = 2

\* C4: key rejection.  In every reachable state a set(0, v) has failed with
\* an error and, when the HashMap holds a table, key 0 is not present and
\* get(0) is empty.
C4_KeyRejection ==
    /\ (hlast.op = "set" /\ hlast.key = NULL_KEY) => hlast.err = "invalid_argument"
    /\ href[NULL_KEY] = NONE
    /\ has_data(hm) =>
           /\ ~exists(hm, NULL_KEY)
           /\ get(hm, NULL_KEY) = NONE

\* C4 witness: set(0, v) was called on a table that holds keys.
C4_Witness == hlast.op = "set" /\ hlast.key = NULL_KEY /\ count(hm) >= 1

(***************************************************************************)
(* Claims on the Map (SpecMap).                                            *)
(***************************************************************************)
\* C5: structure of the Map.  In every reachable state of a Map that holds a
\* table the count of the HashMap is the length of the vector, and the
\* HashMap maps every present key to the index of the element with that key.
C5_MapStructure ==
    map_has_data(mp) =>
    /\ count(mp.hash_map) = Len(mp.storage)
    /\ \A k \in MapKeys :
           exists(mp.hash_map, k) => at(mp.storage, get(mp.hash_map, k)).key = k

\* C6: compactness.  In every reachable state the iteration yields count()
\* elements, every yielded key exists(), and no key is yielded twice.
C6_Compactness ==
    LET keys == map_iterate(mp) IN
    /\ Len(keys) = map_count(mp)
    /\ \A i \in 1..Len(keys) : map_exists(mp, keys[i])
    /\ \A i, j \in 1..Len(keys) : keys[i] = keys[j] => i = j

\* what C7 says of a remove(k) of a key present at index i
RemoveSwap(m, k, n) ==
    LET i    == get(m.hash_map, k)
        last == Len(m.storage) - 1
    IN /\ map_get(n, k) = NONE
       /\ map_count(n) = map_count(m) - 1
       /\ Len(n.storage) = last
       /\ i # last =>
              /\ at(n.storage, i) = at(m.storage, last)
              /\ get(n.hash_map, at(m.storage, last).key) = i
       /\ \A j \in 0..(last - 1) : j # i => at(n.storage, j) = at(m.storage, j)
       /\ \A k2 \in MapKeys \ {k} : map_get(n, k2) = map_get(m, k2)

\* C7: remove by swap with the last element.  A remove(k) of a key present
\* at index i makes get(k) null and decreases count() by 1; when i was not
\* the last index, the last element sits at index i afterwards and the
\* HashMap maps its key to i; every other element keeps its index and every
\* other key its value.
C7_RemoveSwap ==
    [][(mlast'.op = "remove" /\ MpRemove(mlast'.key) /\ map_exists(mp, mlast'.key)) =>
          RemoveSwap(mp, mlast'.key, mp')]_vars

\* what C10 says of a set(k, v)
SetFrame(m, k, v, n) ==
    IF map_exists(m, k)
    THEN LET i == get(m.hash_map, k) IN
         /\ n.hash_map = m.hash_map
         /\ Len(n.storage) = Len(m.storage)
         /\ at(n.storage, i) = [key |-> k, value |-> v]
         /\ \A j \in 0..(Len(m.storage) - 1) : j # i => at(n.storage, j) = at(m.storage, j)
    ELSE k # NULL_KEY =>
         /\ n.storage = Append(m.storage, [key |-> k, value |-> v])
         /\ get(n.hash_map, k) = Len(m.storage)

\* C10: set.  A set(k, v) of a present key replaces the value of k and
\* leaves the length, the index of k, the HashMap and every other element
\* as they were; a set(k, v) of an absent key k # 0 appends (k, v) as the
\* last element and registers k -> old length in the HashMap.
C10_SetFrame ==
    [][mlast'.op = "set" =>
          \A v \in Values : MpSet(mlast'.key, v) => SetFrame(mp, mlast'.key, v, mp')]_vars

(***************************************************************************)
(* Claims on the Storage (SpecStorage).                                    *)
(***************************************************************************)
\* the n-th push returned id n
C8_State ==
    ~slast.assigned =>
        /\ st.id_counter = slast.pushes
        /\ slast.op = "push" => slast.err = "none" /\ slast.result = slast.pushes

\* a push is one more push and returns the id that follows the ids returned
\* before it; no other call changes the number of pushes
C8_Step ==
    ~slast'.assigned =>
        /\ slast'.op = "push" =>
               /\ slast'.pushes = slast.pushes + 1
               /\ slast'.err = "none" /\ slast'.result = slast.pushes + 1
               /\ \A id \in 1..slast.pushes : slast'.result > id
        /\ slast'.op # "push" => slast'.pushes = slast.pushes

\* C8: ids.  On a Storage constructed empty, the n-th call to push since
\* the construction returns id n (the first returns 1), whatever calls to
\* remove, clear, get, operator[], stores and iterations were made between
\* the pushes: the ids returned are strictly increasing and none is
\* returned twice, also after the id was removed.  The calls between the
\* pushes are all the calls of the Storage but the assignment of another
\* Storage (st = o, st = std::move(o)), which replaces the id counter by
\* the counter of the Storage assigned and which the property does not
\* speak of.
C8_PushIds == []C8_State /\ [][C8_Step]_vars

\* C8 witness: the third push on the Storage returned 3 when the ids
\* returned before it had been removed or cleared.
C8_Witness ==
    /\ ~slast.assigned
    /\ slast.op = "push" /\ slast.err = "none"
    /\ slast.pushes = 3 /\ slast.result = 3
    /\ storage_count(st) = 1

\* what C9 says of storage[id]
IndexOrThrow(s, id, r) ==
    IF storage_exists(s, id)
    THEN /\ r.err = "none"
         /\ r.value = storage_get(s, id)
         /\ at(s.map.storage, get(s.map.hash_map, id)).key = id
         /\ storage_count(r.s) = storage_count(s)
    ELSE /\ r.err = "runtime_error"
         /\ r.s = s
         /\ ~storage_exists(r.s, id)

\* C9: storage[id] of an id that is not present raises an error and leaves
\* the Storage as it was; of a present id it returns the stored value, the
\* value of the element that was pushed under that id, and leaves count()
\* as it was.
C9_IndexOrThrow ==
    [][(slast'.op = "index" /\ StIndex(slast'.id)) =>
          IndexOrThrow(st, slast'.id,
                       [s |-> st', err |-> slast'.err, value |-> slast'.result])]_vars

(***************************************************************************)
(* Claims on the iteration and on operator[].                              *)
(***************************************************************************)
\* C11: iteration order of the Map.  As long as every call was a set or an
\* operator[], the iteration yields the keys in the order of the calls that
\* inserted them: exactly the inserted keys, each at the position of its
\* first insertion, whatever was overwritten since.
C11_InsertionOrder == mins.only_sets => map_iterate(mp) = mins.order

\* C12: iteration of the HashMap.  In every reachable state of a HashMap
\* that holds a table the loop from begin() to end() visits slots in ascending order, all of them non-empty,
\* yields count() entries, and yields every present key exactly once with
\* its current value.
C12_Iteration ==
    has_data(hm) =>
    LET slots   == iterate_slots(hm)
        yielded == iterate(hm)
    IN /\ \A i \in 1..(Len(slots) - 1) : slots[i] < slots[i + 1]
       /\ \A i \in 1..Len(slots) :
              slots[i] \in 0..(hm.capacity - 1) /\ yielded[i].key # NULL_KEY
       /\ Len(yielded) = count(hm)
       /\ \A k \in NonNullKeys :
              exists(hm, k) =>
                  /\ Cardinality({i \in 1..Len(yielded) : yielded[i].key = k}) = 1
                  /\ \A i \in 1..Len(yielded) :
                         yielded[i].key = k => yielded[i].value = get(hm, k)

\* C12 witness: three keys in a run that wraps from the last slot to slot 0,
\* so that the iteration starts inside the run, skips the empty slots after
\* it and ends on the first entry of the run.
C12_Witness ==
    /\ count(hm) = 3
    /\ hm.entries[0].key # NULL_KEY
    /\ hm.entries[2].key = NULL_KEY
    /\ hm.entries[hm.capacity - 1].key # NULL_KEY

\* what C13 says of map[k] on a HashMap h, k # 0, that gave n
IndexGetOrInsert(h, k, n) ==
    IF exists(h, k)
    THEN n = h
    ELSE /\ count(n) = count(h) + 1
         /\ get(n, k) = 0
         /\ \A k2 \in Keys \ {k} : get(n, k2) = get(h, k2)

\* what C13 says of map[k] on a Map m, k # 0, that gave n
MapIndexGetOrInsert(m, k, n) ==
    IF map_exists(m, k)
    THEN n = m
    ELSE /\ map_count(n) = map_count(m) + 1
         /\ map_get(n, k) = DefaultT
         /\ \A k2 \in MapKeys \ {k} : map_get(n, k2) = map_get(m, k2)

C13_HashMapStep ==
    /\ (hlast'.op = "index" /\ hlast'.key # NULL_KEY) =>
           /\ hlast'.err = "none"
           /\ IndexGetOrInsert(hm, hlast'.key, hm')
    /\ (hlast'.op = "index_assign" /\ hlast'.key # NULL_KEY) =>
           /\ hlast'.err = "none"
           /\ count(hm') = count(hm) + (IF exists(hm, hlast'.key) THEN 0 ELSE 1)
           /\ \E v \in Values : HmIndexAssign(hlast'.key, v) /\ get(hm', hlast'.key) = v

C13_MapStep ==
    /\ (mlast'.op = "index" /\ mlast'.key # NULL_KEY) =>
           /\ mlast'.err = "none"
           /\ MapIndexGetOrInsert(mp, mlast'.key, mp')
    /\ (mlast'.op = "index_assign" /\ mlast'.key # NULL_KEY) =>
           /\ mlast'.err = "none"
           /\ map_count(mp') = map_count(mp) + (IF map_exists(mp, mlast'.key) THEN 0 ELSE 1)
           /\ \E v \in Values, u \in Values :
                  MpIndexAssign(mlast'.key, v, u) /\ map_get(mp', mlast'.key) = v

\* C13: operator[] is get-or-insert-default, on the HashMap and on the Map.
\* map[k], k # 0, of a present key leaves the container as it was; of an
\* absent key it adds 1 to count() and get(k) is the zero (default) value
\* afterwards, every other key keeping its value; after map[k] = v,
\* get(k) is v.
C13_IndexGetOrInsert == [][C13_HashMapStep /\ C13_MapStep]_vars

(***************************************************************************)
(* Claims on the handles (SpecHandles).                                    *)
(***************************************************************************)
\* C14: shared-ownership release.  In every reachable state, a payload that
\* was freed has no handle pointing to it (it is never freed while a handle
\* still refers to it), a payload that has no handle pointing to it any more
\* was freed (it is freed at the moment the last handle goes), and no
\* payload was freed twice.
C14_ReleaseOnce ==
    \A p \in Payloads :
        /\ sp.payloads[p].state = "freed" => Referrers(sp, p) = 0
        /\ sp.payloads[p].state = "live" => Referrers(sp, p) > 0
        /\ sp.payloads[p].frees = (IF sp.payloads[p].state = "freed" THEN 1 ELSE 0)

\* what a move from the valid handle src to the handle dst leaves: src
\* invalid, dst valid on the payload of src
MoveLeaves(s, dst, src, n) ==
    /\ ~is_valid(n, src)
    /\ is_valid(n, dst) /\ n.handles[dst] = s.handles[src]
    /\ n.copies = s.copies

\* what C15 says of a destructor call on the handle h
DestroyInvalidates(s, h, n) ==
    /\ ~is_valid(n, h)
    /\ \A g \in HandleNames \ {h} : n.handles[g] = s.handles[g]
    /\ n.copies = s.copies
    /\ ~is_valid(s, h) => n = s

IsMove(call) ==
    /\ call.op \in {"move_construct", "move_assign"}
    /\ call.dst # call.src /\ call.src_valid

C15_StepAsClaimed ==
    /\ IsMove(plast') =>
           /\ MoveLeaves(sp, plast'.dst, plast'.src, sp')
           /\ sp'.payloads[sp.handles[plast'.src]].reference_count =
                  sp.payloads[sp.handles[plast'.src]].reference_count
    /\ plast'.op = "destroy" => DestroyInvalidates(sp, plast'.dst, sp')

\* C15: a move construction or move assignment from a valid
\* handle A to another handle B leaves A invalid, B valid, and the reference
\* count of the payload as it was; a destructor call leaves the handle
\* invalid and every other handle as it was, and on a handle that is
\* already invalid it changes nothing.
C15_AsClaimed == [][C15_StepAsClaimed]_vars

(***************************************************************************)
(* Claims on the Optional (SpecOptional).                                  *)
(***************************************************************************)
C16_State ==
    \A n \in OptionalNames :
        /\ has_value(opt[n]) <=> oref[n] # NONE
        /\ has_value(opt[n]) => opt_value(opt[n]).value = oref[n]

C16_Step ==
    /\ olast'.op \in {"value", "take", "store"} =>
           /\ olast'.err = "runtime_error" <=> ~has_value(opt[olast'.name])
           /\ olast'.err = "none" <=> has_value(opt[olast'.name])
    /\ (olast'.op \in {"value", "take"} /\ olast'.err = "none") =>
           olast'.result = oref[olast'.name]
    /\ (olast'.op = "take" /\ olast'.err = "none") =>
           ~has_value(opt'[olast'.name])
    /\ olast'.err # "none" => opt' = opt

\* C16: state of an Optional.  In every reachable state has_value() is true
\* exactly when the most recent operation that changed the Optional stored
\* a value, and value() is then that value; value() and take() raise an
\* error exactly when has_value() is false, and then change nothing; take()
\* on an Optional that has a value returns it and leaves the Optional
\* empty.
C16_OptionalState == []C16_State /\ [][C16_Step]_vars

\* C16 witness: take() has returned the value of an Optional and left it
\* empty, while the other Optional still holds the same value.
C16_Witness ==
    /\ olast.op = "take" /\ olast.err = "none" /\ olast.had_value
    /\ olast.result = MaxValue
    /\ ~has_value(opt[olast.name])
    /\ \E m \in OptionalNames \ {olast.name} :
           has_value(opt[m]) /\ opt[m].m_value = olast.result

(***************************************************************************)
(* Claims on the slots and the capacity of the HashMap (SpecHashMap).      *)
(***************************************************************************)
\* a HashMap that never held a key, grown to the capacity
RECURSIVE grown(_, _)
grown(h, capacity) == IF h.capacity >= capacity THEN h ELSE grown(expand(h), capacity)

\* C17: clear.  A clear() leaves every slot empty, count() 0 and the
\* capacity as it was, so that get(k) is empty for every k; the table is
\* then the one a new table grown to that capacity is, so that every later
\* call behaves as on a table that never held a key.
C17_Clear ==
    [][hlast'.op = "clear" =>
          /\ \A i \in 0..(hm.capacity - 1) : hm'.entries[i] = EmptyEntry
          /\ count(hm') = 0
          /\ hm'.capacity = hm.capacity
          /\ \A k \in Keys : get(hm', k) = NONE
          /\ hm' = grown(NewHashMap, hm.capacity)]_vars

\* C17 witness: clear() was called on a table of capacity 8 that held keys.
C17_Witness ==
    /\ hlast.op = "clear" /\ hlast.was_present
    /\ hm.capacity = 4 * DEFAULT_CAPACITY

\* the slots the probe of key visits before it reaches slot
ProbedBefore(h, key, slot) ==
    LET start == slot_of(key, h.capacity)
        steps == (slot - start + h.capacity) % h.capacity
    IN {(start + j) % h.capacity : j \in 0..(steps - 1)}

\* C18: probe reachability.  In every reachable state of a HashMap that
\* holds a table, for every non-empty slot s, every slot the linear probe of its key visits from
\* hash(key) & (capacity - 1), wrapping around, before it reaches s is
\* non-empty.
C18_ProbeReachable ==
    has_data(hm) =>
    \A s \in 0..(hm.capacity - 1) :
        hm.entries[s].key # NULL_KEY =>
            \A j \in ProbedBefore(hm, hm.entries[s].key, s) : hm.entries[j].key # NULL_KEY

\* C18 witness: after a remove that re-inserted an entry, an entry sits in a
\* slot below the one its probe starts from (its probe wraps around).
C18_Witness ==
    /\ hlast.op = "remove" /\ hlast.block_size >= 2
    /\ \E s \in 0..(hm.capacity - 1) :
           /\ hm.entries[s].key # NULL_KEY
           /\ slot_of(hm.entries[s].key, hm.capacity) > s

EmptySlots(h) == {i \in 0..(h.capacity - 1) : h.entries[i].key = NULL_KEY}

\* C19: load.  In every reachable state of a HashMap that holds a table,
\* count <= capacity / 2, and at least capacity / 2 slots are empty.
C19_Load ==
    has_data(hm) =>
    /\ count(hm) <= hm.capacity \div 2
    /\ Cardinality(EmptySlots(hm)) >= hm.capacity \div 2

\* C19 witness: a set has inserted a key into a table that had to grow for
\* it, and the table is exactly half full.
C19_Witness ==
    /\ hlast.op = "set" /\ ~hlast.was_present /\ hlast.err = "none"
    /\ hm.capacity = 2 * DEFAULT_CAPACITY
    /\ count(hm) = hm.capacity \div 2

RECURSIVE IsPowerOfTwo(_)
IsPowerOfTwo(n) == n = 1 \/ (n > 1 /\ n % 2 = 0 /\ IsPowerOfTwo(n \div 2))

\* the calls the claims on the table speak of
TableCalls == {"set", "index", "index_assign", "remove", "clear"}

C20_Shape ==
    has_data(hm) =>
    /\ hlast.op = "new" => hm.capacity = 2
    /\ hm.capacity >= 2 /\ IsPowerOfTwo(hm.capacity)
    /\ DOMAIN hm.entries = 0..(hm.capacity - 1)
    /\ \A k \in Keys : BitAnd(hash(k), hm.capacity - 1) = hash(k) % hm.capacity

C20_Growth ==
    hlast'.op \in TableCalls =>
        hm'.capacity = hm.capacity \/ hm'.capacity = 2 * hm.capacity

\* C20: capacity.  The capacity is 2 on construction and a power of two
\* >= 2 in every reachable state of a HashMap that holds a table, so that
\* hash & (capacity - 1) is hash mod capacity; no set, operator[], remove or
\* clear decreases it, and one that changes it doubles it.
C20_Capacity == []C20_Shape /\ [][C20_Growth]_vars

\* C20 witness: a table that has grown to capacity 8 and from which every
\* key was removed since.
C20_Witness ==
    /\ hlast.op = "remove" /\ hlast.was_present
    /\ count(hm) = 0
    /\ hm.capacity = 4 * DEFAULT_CAPACITY

(***************************************************************************)
(* Claims on the growth of the HashMap (SpecHashMap, SpecGrowth).          *)
(***************************************************************************)
\* the count set(k, v) leaves when it stores k
CountAfterInsertion(h, key) == count(h) + (IF exists(h, key) THEN 0 ELSE 1)

C21_Step ==
    (hlast'.op = "set" /\ hlast'.key # NULL_KEY) =>
        /\ hm'.capacity = (IF CountAfterInsertion(hm, hlast'.key) > hm.capacity \div 2
                           THEN 2 * hm.capacity ELSE hm.capacity)
        /\ exists(hm, hlast'.key) =>
               count(hm') = count(hm) /\ hm'.capacity = hm.capacity

\* C21: growth condition.  A set(k, v), k # 0, doubles the capacity exactly
\* when the count after the insertion exceeds capacity / 2; a set that
\* overwrites a present key changes neither the count nor the capacity.
C21_GrowthCondition == [][C21_Step]_vars

\* the number of times a capacity was doubled from DEFAULT_CAPACITY
RECURSIVE Doublings(_)
Doublings(capacity) ==
    IF capacity <= DEFAULT_CAPACITY THEN 0 ELSE 1 + Doublings(capacity \div 2)

\* every key of the test is stored with its value
AllStored ==
    /\ count(hm) = TEST_VALUES_COUNT
    /\ \A k \in TestKeys : get(hm, k) = values[k]

\* C22 as claimed: once the 21 keys 1..21 are stored in a new table, the
\* capacity has doubled at least 4 times and is 32, count() is 21 and every
\* key is retrievable.
C22_AsClaimed ==
    NotStored = {} =>
        /\ Doublings(hm.capacity) >= 4
        /\ hm.capacity = 32
        /\ AllStored

\* C22: growth scenario.  Once the 21 keys 1..21 are stored in a new table,
\* in whichever of the orders, the capacity has doubled 5 times (at least 4
\* times) and is 64, count() is 21 and get(k) is the value stored with k for
\* every key; until then the capacity is the smallest power of two >= 2 that
\* is more than twice the count, but for a count of 0.
C22_GrowthScenario ==
    /\ NotStored = {} =>
           /\ Doublings(hm.capacity) = 5
           /\ hm.capacity = 64
           /\ AllStored
    /\ count(hm) = TEST_VALUES_COUNT - Cardinality(NotStored)
    /\ count(hm) > 0 =>
           /\ hm.capacity >= 2 * count(hm)
           /\ hm.capacity < 4 * count(hm) \/ hm.capacity = DEFAULT_CAPACITY

\* C22 witness: the last key of the test, 21, was stored last and into a
\* table that already had 64 slots.
C22_Witness ==
    /\ hlast.op = "set" /\ hlast.key = TEST_VALUES_COUNT /\ ~hlast.was_present
    /\ NotStored = {}
    /\ hm.capacity = 64

(***************************************************************************)
(* Claims on the calls of the HashMap that remove or reject (SpecHashMap). *)
(***************************************************************************)
\* the slots strictly after slot d up to, and without, the next empty slot
\* in probe order (wrapping from the last slot to slot 0)
RECURSIVE RunAfter(_, _, _)
RunAfter(h, d, steps) ==
    LET j == (d + steps) % h.capacity IN
    IF steps >= h.capacity \/ h.entries[j].key = NULL_KEY THEN {}
    ELSE {j} \cup RunAfter(h, d, steps + 1)

\* the slots that hold the key
SlotsOf(h, key) == {i \in 0..(h.capacity - 1) : h.entries[i].key = key}

\* what C23 says of a remove(k) that found k at slot d of h and gave n
ChainRepair(h, k, d, n) ==
    LET buffered == RunAfter(h, d, 1) IN
    /\ h.entries[d].key = k
    \* the slots of the run after d, and slot d, hold what is left of the
    \* buffered entries: nothing else moved
    /\ \A j \in 0..(h.capacity - 1) :
           j \notin (buffered \cup {d}) => n.entries[j] = h.entries[j]
    /\ SlotsOf(n, k) = {}
    \* a buffered entry is in one slot, of the run, where a probe finds it
    /\ \A j \in buffered :
           LET e == h.entries[j] IN
           /\ Cardinality(SlotsOf(n, e.key)) = 1
           /\ SlotsOf(n, e.key) \subseteq (buffered \cup {d})
           /\ get(n, e.key) = e.value
    \* no entry is lost or duplicated
    /\ PresentKeys(n) = PresentKeys(h) \ {k}
    /\ Cardinality(EmptySlots(n)) = Cardinality(EmptySlots(h)) + 1
    /\ n.capacity = h.capacity

\* C23: chain repair.  A remove(k) that finds k in slot d empties d and the
\* slots strictly after d up to the next empty slot in probe order (the
\* scan counts exactly those, wrapping from the last slot to slot 0) and
\* stores the entries of these slots again: afterwards every slot before d
\* in the run or outside the run is as it was, every entry that followed d
\* is in exactly one slot, of the run, where its probe finds it with its
\* value, k is in no slot, and one more slot is empty.
C23_ChainRepair ==
    [][(hlast'.op = "remove" /\ hlast'.deleted_index # -1) =>
          /\ hlast'.block_size = 1 + Cardinality(RunAfter(hm, hlast'.deleted_index, 1))
          /\ ChainRepair(hm, hlast'.key, hlast'.deleted_index, hm')]_vars

\* C23 witness: the removed key sat in the last slot, the two entries that
\* followed it sat in the slots 0 and 1 (the run crossed the end of the
\* array), and both were stored one slot earlier.
C23_Witness ==
    /\ hlast.op = "remove"
    /\ hlast.deleted_index = hm.capacity - 1
    /\ hlast.block_size = 3
    /\ hm.entries[hm.capacity - 1].key # NULL_KEY
    /\ hm.entries[0].key # NULL_KEY
    /\ hm.entries[1].key = NULL_KEY

(***************************************************************************)
(* Claims on the overflow of the capacity (SpecOverflow).                  *)
(***************************************************************************)
\* the call of set or operator[] on hm has to grow the table, and the
\* doubled capacity does not fit the size_t
GrowthOverflows(op, key) ==
    /\ hm.count >= hm.capacity \div 2
    /\ op = "set" \/ ~exists(hm, key)
    /\ new_capacity(hm, SizeBits) < hm.capacity

C24_Step ==
    hlast'.op \in {"set", "index", "index_assign"} =>
        /\ GrowthOverflows(hlast'.op, hlast'.key) <=> hlast'.err = "overflow_error"
        /\ hlast'.err = "overflow_error" => hm' = hm /\ href' = href

\* C24: capacity overflow.  With the capacity in a size_t of SizeBits bits,
\* a set (or the set of an operator[]) that has to grow the table when
\* capacity * 2 wraps below the capacity fails with an overflow error and
\* leaves capacity, count and every slot as they were, and no other call
\* fails so; in every reachable state the capacity fits the size_t and,
\* while the HashMap holds a table, every key stored and not removed since
\* (by a call on the HashMap, or on the HashMap it was assigned) is
\* retrievable with its value.
C24_Overflow ==
    /\ [](/\ hm.capacity <= MaxCapacity
          /\ has_data(hm) => \A k \in NonNullKeys : get(hm, k) = href[k])
    /\ [][C24_Step]_vars

\* C24 witness: a set of an absent key has failed with the overflow error
\* on a table of the largest capacity that is half full.
C24_Witness ==
    /\ hlast.op = "set" /\ hlast.err = "overflow_error"
    /\ hlast.key # NULL_KEY /\ ~hlast.was_present
    /\ hm.capacity = MaxCapacity
    /\ count(hm) = hm.capacity \div 2

(***************************************************************************)
(* Claims on the loops of the HashMap (SpecHashMap).                       *)
(***************************************************************************)
\* the iterations the probe loop of set_entry and get makes for the key
\* (capacity when it visits every slot without an end)
ProbeSteps(entries, capacity, key) ==
    LET start == slot_of(key, capacity)
        p     == probe(entries, capacity, key, start, 0)
    IN IF p.diverges THEN capacity ELSE (p.index - start + capacity) % capacity

\* the set_entry calls of the loop of expand, from slot i on, all end
RECURSIVE MovesEnd(_, _, _, _)
MovesEnd(old_entries, old_capacity, new_entries, i) ==
    IF i >= old_capacity THEN TRUE
    ELSE IF old_entries[i].key # NULL_KEY
    THEN /\ ProbeSteps(new_entries, old_capacity * 2, old_entries[i].key) < old_capacity * 2
         /\ MovesEnd(old_entries, old_capacity,
                     set_entry(new_entries, old_capacity * 2,
                               old_entries[i].key, old_entries[i].value).entries,
                     i + 1)
    ELSE MovesEnd(old_entries, old_capacity, new_entries, i + 1)

\* HashMap::set of the key ends: the loop of expand, when set calls it, and
\* the probe of set_entry
SetEnds(h, key) ==
    IF h.count >= h.capacity \div 2
    THEN /\ MovesEnd(h.entries, h.capacity, ZeroEntries(h.capacity * 2), 0)
         /\ key # NULL_KEY =>
                ProbeSteps(expand(h).entries, 2 * h.capacity, key) < 2 * h.capacity
    ELSE key # NULL_KEY => ProbeSteps(h.entries, h.capacity, key) < h.capacity

\* the set_entry calls of the second loop of remove, from the i-th
\* invalidated slot on, all end
RECURSIVE ReinsertsEnd(_, _, _, _)
ReinsertsEnd(entries, capacity, invalidated_slots, i) ==
    IF i >= Len(invalidated_slots) THEN TRUE
    ELSE /\ ProbeSteps(entries, capacity, invalidated_slots[i + 1].key) < capacity
         /\ ReinsertsEnd(set_entry(entries, capacity, invalidated_slots[i + 1].key,
                                   invalidated_slots[i + 1].value).entries,
                         capacity, invalidated_slots, i + 1)

\* HashMap::remove of the key ends: its scan loop and, when the key is
\* found, the set_entry calls that store the rest of the run again
RemoveEnds(h, key) ==
    LET s == remove_scan_of(h, key)
        n == s.block_size - 1
        invalidated_slots ==
            [i \in 1..n |-> h.entries[invalidated_slot(s.deleted_index, i - 1, h.capacity)]]
        nulled == {s.deleted_index} \cup
                  {invalidated_slot(s.deleted_index, i, h.capacity) : i \in 0..(n - 1)}
        cleared == [j \in 0..(h.capacity - 1) |->
                       IF j \in nulled THEN EmptyEntry ELSE h.entries[j]]
    IN /\ ~s.diverges
       /\ s.deleted_index # -1 => ReinsertsEnd(cleared, h.capacity, invalidated_slots, 0)

\* C25: termination of the probing.  In every reachable state of a HashMap
\* that holds a table at least one slot is empty and, for every key, the probe loop of get, exists and
\* operator[] reaches the key or an empty slot in fewer than capacity
\* iterations, and so do the scan loop of remove, every probe of the
\* entries remove stores again, every probe of the entries expand moves and
\* the probe of set.
C25_Termination ==
    has_data(hm) =>
    /\ EmptySlots(hm) # {}
    /\ \A k \in Keys :
           /\ ProbeSteps(hm.entries, hm.capacity, k) < hm.capacity
           /\ SetEnds(hm, k)
           /\ RemoveEnds(hm, k)

\* C25 witness: a remove of an absent key has scanned a run that wraps from
\* the last slot to slot 0 and fills half of the table, the longest a probe
\* gets.
C25_Witness ==
    /\ hlast.op = "remove" /\ ~hlast.was_present /\ hlast.key # NULL_KEY
    /\ hm.capacity >= 2 * DEFAULT_CAPACITY
    /\ ProbeSteps(hm.entries, hm.capacity, hlast.key) = hm.capacity \div 2
    /\ slot_of(hlast.key, hm.capacity) + hm.capacity \div 2 >= hm.capacity

(***************************************************************************)
(* Claims on the ids of the Storage (SpecIds).                             *)
(***************************************************************************)
\* C26: id 0.  With the id counter in an Id of IdBits bits, in every
\* reachable state the last push has not returned 0 (a push that has
\* returned has returned the id counter, which is in 1..2^IdBits - 1; the
\* push that wraps the counter to 0 has thrown), and get(0) is null and
\* exists(0) is false.
C26_NoNullId ==
    /\ slast.op = "push" =>
           /\ slast.result # NULL_ID
           /\ slast.err = "none" =>
                  slast.result = st.id_counter /\ slast.result \in WrappedIds \ {NULL_ID}
           /\ st.id_counter = NULL_ID <=> slast.err = "invalid_argument"
    /\ storage_get(st, NULL_ID) = NONE
    /\ ~storage_exists(st, NULL_ID)

\* C26 witness: the push that wrapped the id counter to 0, on a Storage that
\* holds the largest id.
C26_Witness ==
    /\ slast.op = "push" /\ slast.err = "invalid_argument"
    /\ st.id_counter = NULL_ID
    /\ storage_exists(st, 2 ^ IdBits - 1)

(***************************************************************************)
(* Claims on the rejected calls (SpecHashMap, SpecMap).                    *)
(***************************************************************************)
\* C27: rejected set.  A set(0, v) fails with the invalid-key error and
\* leaves the capacity, the count and every slot of the table as they were.
C27_RejectedSet ==
    [][(hlast'.op = "set" /\ hlast'.key = NULL_KEY) =>
          /\ hlast'.err = "invalid_argument"
          /\ hm'.capacity = hm.capacity
          /\ hm'.count = hm.count
          /\ hm'.entries = hm.entries]_vars

C28_Step ==
    /\ (mlast'.op \in {"set", "index", "index_assign"} /\ mlast'.key = NULL_KEY) =>
           /\ mlast'.err = "invalid_argument"
           /\ mp'.storage = mp.storage
           /\ map_count(mp') = map_count(mp)
           /\ \A k \in MapKeys : get(mp'.hash_map, k) = get(mp.hash_map, k)
    /\ mlast'.op = "remove" => mlast'.err = "none"

\* C28: rejected insertion.  A Map set(0, v) or map[0] fails with the
\* invalid-key error and leaves the vector (length and elements) and the
\* contents of the HashMap as they were; in every reachable state the
\* iteration yields no entry with key 0, and every remove call returns
\* without an error.
C28_RejectedInsertion ==
    /\ [](\A i \in 1..Len(map_iterate(mp)) : map_iterate(mp)[i] # NULL_KEY)
    /\ [][C28_Step]_vars

(***************************************************************************)
(* Claims on the copies and the assignments of handles (SpecWindow,        *)
(* SpecHandles).                                                           *)
(***************************************************************************)
\* the call was a copy construction of dst or a copy assignment to dst
\* from the handle src, which was invalid (null) before it
CopyOfInvalid(dst, src) ==
    /\ sp.handles[src] = NULLPTR
    /\ WnCopyConstruct(dst, src) \/ WnCopyAssign(dst, src)

\* C29: copy of an invalid handle.  A copy construction or a copy
\* assignment from an invalid handle returns (the process does not abort),
\* dereferences no null pointer, leaves the destination invalid and adds to
\* no reference count: the only count it changes is the one of the payload
\* the destination releases.
C29_CopyOfInvalid ==
    [][\A dst, src \in HandleNames :
           CopyOfInvalid(dst, src) =>
               /\ plast'.op # "abort"
               /\ ~sp'.undefined
               /\ ~is_valid(sp', dst)
               /\ \A p \in Payloads :
                      p # sp.handles[dst] => sp'.payloads[p] = sp.payloads[p]]_vars

\* the call was an assignment between two handle objects that referred to
\* the payload p before it
SharedAssign(p) ==
    /\ plast'.op \in {"copy_assign", "move_assign", "abort"}
    /\ plast'.src \in HandleNames /\ plast'.dst \in HandleNames
    /\ plast'.src # plast'.dst
    /\ sp.handles[plast'.src] = p /\ sp.handles[plast'.dst] = p

C30_Step ==
    /\ \A p \in Payloads :
           SharedAssign(p) =>
               /\ plast'.op # "abort" /\ ~sp'.undefined
               /\ sp'.payloads[p].state = "live" /\ sp'.payloads[p].frees = 0
               /\ sp'.payloads[p].reference_count = Referrers(sp', p)
               /\ is_valid(sp', plast'.dst) /\ sp'.handles[plast'.dst] = p
    /\ (plast'.op \in {"copy_assign", "move_assign"} /\ plast'.src = plast'.dst) =>
           sp' = sp

\* C30: assignment between handles that share a payload.  a = b and
\* a = move(b), for two handle objects a and b that refer to the same
\* payload, do not free the payload and touch no freed memory; afterwards a
\* refers to the payload and its reference count is the number of handles
\* that refer to it.  a = a changes nothing.
C30_SharedAssign == [][C30_Step]_vars

=============================================================================
